---- MODULE Spec2Model ----
(***************************************************************************)
(* Gnuk OpenPGP card: the Data Object engine of src/src/openpgp-do.c.      *)
(*                                                                         *)
(* The NV data pool is a sequence of bytes, the volatile indices are       *)
(* addresses into it, and every C function of openpgp-do.c is an operator  *)
(* from a machine state record to a machine state record.  The flash       *)
(* driver, the access-control module, AES, SHA-1 and the random source are *)
(* collaborators whose code is not part of src/: they are modelled from    *)
(* the specification (section 3, 4.1, 4.2, 6).                             *)
(***************************************************************************)
EXTENDS Integers, Sequences, FiniteSets, TLC

VARIABLES
    pool,                       \* NV: programmed bytes of the active data-pool page
    pool_page,                  \* NV: which flash page holds the data pool
    keystore,                   \* NV: the key-slot arena
    last_p,                     \* flash.c: address of the tail of the data pool
    digital_signature_counter,  \* openpgp-do.c:35
    pw_err_counter_p,           \* openpgp-do.c:81
    pw1_lifetime_p,             \* openpgp-do.c:179
    do_ptr,                     \* openpgp-do.c:247
    num_prv_keys,               \* openpgp-do.c:609
    kd,                         \* openpgp-do.c:531
    res_APDU,                   \* response buffer
    res_APDU_size,              \* number of valid bytes of res_APDU
    keystring_md_pw3,           \* SHA-1 of the verified admin passphrase
    admin_authorized,           \* ac.c: PW3 verified
    power,                      \* "on", or "off" after a power loss
    nops,                       \* number of operations performed so far
    hist,                       \* the most recent operations, newest first
    focus                       \* the inputs this behaviour draws from

vars == << pool, pool_page, keystore, last_p, digital_signature_counter,
           pw_err_counter_p, pw1_lifetime_p, do_ptr, num_prv_keys, kd,
           res_APDU, res_APDU_size, keystring_md_pw3, admin_authorized,
           power, nops, hist, focus >>

(***************************************************************************)
(* Bounds of the model.                                                    *)
(***************************************************************************)
MaxOps == 4
MaxDscOps == 4
NumKeySlots == 4
MaxPwOps == 4
MaxKeyOps == 4

(***************************************************************************)
(* Program constants.                                                      *)
(***************************************************************************)
NULL == 0

NR_DO__FIRST__ == 1
NR_DO_SEX == 1
NR_DO_FP_SIG == 2
NR_DO_FP_DEC == 3
NR_DO_FP_AUT == 4
NR_DO_CAFP_1 == 5
NR_DO_CAFP_2 == 6
NR_DO_CAFP_3 == 7
NR_DO_KGTIME_SIG == 8
NR_DO_KGTIME_DEC == 9
NR_DO_KGTIME_AUT == 10
NR_DO_LOGIN_DATA == 11
NR_DO_URL == 12
NR_DO_NAME == 13
NR_DO_LANGUAGE == 14
NR_DO_PRVKEY_SIG == 15
NR_DO_PRVKEY_DEC == 16
NR_DO_PRVKEY_AUT == 17
NR_DO_KEYSTRING_PW1 == 18
NR_DO_KEYSTRING_RC == 19
NR_DO_KEYSTRING_PW3 == 20
NR_DO__LAST__ == 21

NR_COUNTER_DS == 128
NR_COUNTER_DS_LSB == 192
NR_BOOL_PW1_LIFETIME == 240
NR_COUNTER_123 == 254
NR_EMPTY == 255

PW_ERR_PW1 == 0
PW_ERR_RC == 1
PW_ERR_PW3 == 2
PASSWORD_ERRORS_MAX == 3
PW_LEN_MAX == 127
SIZE_PW_STATUS_BYTES == 7
SIZE_FP == 20
SIZE_KGTIME == 4

BY_USER == 1
BY_RESETCODE == 2
BY_ADMIN == 3

GPG_KEY_FOR_SIGNING == 0
GPG_KEY_FOR_DECRYPTION == 1
GPG_KEY_FOR_AUTHENTICATION == 2
NUM_ALL_PRV_KEYS == 3

KEY_CONTENT_LEN == 128
KEY_MAGIC_LEN == 8
ADDITIONAL_DATA_SIZE == 16
DATA_ENCRYPTION_KEY_SIZE == 16
KEYSTRING_MD_SIZE == 20
KEYSTRING_SIZE_PW1 == 21
KEYSTRING_SIZE_RC == 21
FLASH_PAGE_SIZE == 1024

AC_NEVER == 128
AC_ALWAYS == 255
AC_ADMIN_AUTHORIZED == 4

GPG_DO_AID == 79
GPG_DO_NAME == 91
GPG_DO_LOGIN_DATA == 94
GPG_DO_CH_DATA == 101
GPG_DO_APP_DATA == 110
GPG_DO_SS_TEMP == 122
GPG_DO_DS_COUNT == 147
GPG_DO_EXTCAP == 192
GPG_DO_ALG_SIG == 193
GPG_DO_ALG_DEC == 194
GPG_DO_ALG_AUT == 195
GPG_DO_PW_STATUS == 196
GPG_DO_FP_ALL == 197
GPG_DO_CAFP_ALL == 198
GPG_DO_FP_SIG == 199
GPG_DO_FP_DEC == 200
GPG_DO_FP_AUT == 201
GPG_DO_CAFP_1 == 202
GPG_DO_CAFP_2 == 203
GPG_DO_CAFP_3 == 204
GPG_DO_KGTIME_ALL == 205
GPG_DO_KGTIME_SIG == 206
GPG_DO_KGTIME_DEC == 207
GPG_DO_KGTIME_AUT == 208
GPG_DO_RESETTING_CODE == 211
GPG_DO_KEY_IMPORT == 16383
GPG_DO_LANGUAGE == 24365
GPG_DO_SEX == 24373
GPG_DO_URL == 24400
GPG_DO_HIST_BYTES == 24402
GPG_DO_CH_CERTIFICATE == 32545

(***************************************************************************)
(* Bytes and byte strings.                                                 *)
(***************************************************************************)
Max(a, b) == IF a >= b THEN a ELSE b
Min(a, b) == IF a <= b THEN a ELSE b

RECURSIVE BitOp(_, _, _, _)
\* The bitwise combination of the low n bits of a and b: op = 0 is AND, 1 is XOR.
BitOp(op, a, b, n) ==
    IF n = 0 THEN 0
    ELSE LET x == a % 2
             y == b % 2
             z == IF op = 0 THEN x * y ELSE (x + y) % 2
         IN  z + 2 * BitOp(op, a \div 2, b \div 2, n - 1)

BitAnd(a, b) ==
    IF a = 255 THEN b
    ELSE IF b = 255 THEN a
    ELSE IF a = 0 \/ b = 0 THEN 0
    ELSE BitOp(0, a, b, 8)

\* XorNibble[x + 1][y + 1] is x XOR y for the 4-bit values x and y.
XorNibble ==
    [x \in 1..16 |-> [y \in 1..16 |-> BitOp(1, x - 1, y - 1, 4)] \o << >>]
        \o << >>

BitXor(a, b) ==
    16 * XorNibble[(a \div 16) + 1][(b \div 16) + 1]
       + XorNibble[(a % 16) + 1][(b % 16) + 1]

\* The function f on 1..n, as the sequence of its n values.
Bytes(f) == f \o << >>

Rep(b, n) == Bytes([i \in 1..n |-> b])

\* K applied to the value v, which is computed once.
Bind(v, K(_)) == K(v)

\* The number of zero bits among the low n bits of v.
RECURSIVE ZeroBits(_, _)
ZeroBits(v, n) ==
    IF n = 0 THEN 0 ELSE (1 - (v % 2)) + ZeroBits(v \div 2, n - 1)

\* memcpy (buf + pos - 1, bs, Len(bs)) on a buffer that reads 'fill' where it
\* was never written.
PutBytes(buf, pos, bs, fill) ==
    Bytes([i \in 1..Max(Len(buf), pos + Len(bs) - 1) |->
              IF i >= pos /\ i < pos + Len(bs) THEN bs[i - pos + 1]
              ELSE IF i <= Len(buf) THEN buf[i]
              ELSE fill])

(***************************************************************************)
(* The machine state handed from one C function to the next.               *)
(***************************************************************************)
St ==
    [ pool |-> pool, page |-> pool_page, keystore |-> keystore,
      last_p |-> last_p, dsc |-> digital_signature_counter,
      pw_err_counter_p |-> pw_err_counter_p,
      pw1_lifetime_p |-> pw1_lifetime_p, do_ptr |-> do_ptr,
      num_prv_keys |-> num_prv_keys, kd |-> kd,
      res_APDU |-> res_APDU, res_APDU_size |-> res_APDU_size, res_p |-> 1,
      keystring_md_pw3 |-> keystring_md_pw3, admin |-> admin_authorized,
      ret |-> 0, ub |-> FALSE ]

Commit(s) ==
    /\ pool' = s.pool
    /\ pool_page' = s.page
    /\ keystore' = s.keystore
    /\ last_p' = s.last_p
    /\ digital_signature_counter' = s.dsc
    /\ pw_err_counter_p' = s.pw_err_counter_p
    /\ pw1_lifetime_p' = s.pw1_lifetime_p
    /\ do_ptr' = s.do_ptr
    /\ num_prv_keys' = s.num_prv_keys
    /\ kd' = s.kd
    /\ res_APDU' = s.res_APDU
    /\ res_APDU_size' = s.res_APDU_size
    /\ keystring_md_pw3' = s.keystring_md_pw3
    /\ admin_authorized' = s.admin

(***************************************************************************)
(* The flash driver (flash.c): data pool.                                  *)
(***************************************************************************)
\* Address of the first byte of data-pool page 'page'.
data_pool(page) == FLASH_PAGE_SIZE * (page + 1)

\* The byte at address a; a byte never programmed reads as erased (0xFF).
Mem(s, a) ==
    LET i == a - data_pool(s.page) + 1
    IN  IF i >= 1 /\ i <= Len(s.pool) THEN s.pool[i] ELSE 255

\* The n bytes from address a on.
MemBytes(s, a, n) == Bytes([i \in 1..n |-> Mem(s, a + i - 1)])

\* Programming can only clear bits: the new content is old AND written.
flash_program(s, a, bs) ==
    LET pos == a - data_pool(s.page) + 1
        n   == Max(Len(s.pool), pos + Len(bs) - 1)
    IN  [s EXCEPT !.pool =
            Bytes([i \in 1..n |->
                LET old == IF i <= Len(s.pool) THEN s.pool[i] ELSE 255
                IN  IF i >= pos /\ i < pos + Len(bs)
                    THEN BitAnd(old, bs[i - pos + 1])
                    ELSE old])]

\* Little-endian bytes of a halfword.
HalfWord(hw) == << hw % 256, (hw \div 256) % 256 >>

\* Room for 'size' bytes (rounded up to a halfword) at the tail, or NULL.
flash_data_pool_allocate(s, size) ==
    LET sz == size + (size % 2)
    IN  IF s.last_p + sz > data_pool(s.page) + FLASH_PAGE_SIZE
        THEN [s EXCEPT !.ret = NULL]
        ELSE [s EXCEPT !.ret = s.last_p, !.last_p = s.last_p + sz]

flash_set_data_pool_last(s, p) == [s EXCEPT !.last_p = p]

\* Write the cell (nr, len, data, pad) at p.
flash_do_write_internal(s, p, nr, data) ==
    flash_program(s, p,
        << nr, Len(data) >> \o data
            \o (IF Len(data) % 2 = 1 THEN << 255 >> ELSE << >>))

\* Append a DO cell; returns the address of its length byte, or NULL.
flash_do_write(s, nr, data) ==
    Bind(flash_data_pool_allocate(s, 2 + Len(data)),
    LAMBDA a :
        IF a.ret = NULL THEN a
        ELSE [flash_do_write_internal(a, a.ret, nr, data) EXCEPT
                 !.ret = a.ret + 1])

\* Release the cell whose length byte is at do_data: its header becomes 0x0000.
flash_do_release(s, do_data) ==
    flash_program(s, do_data - 1, << 0, 0 >>)

flash_put_data_internal(s, p, hw) == flash_program(s, p, HalfWord(hw))

\* Append one halfword.
flash_put_data(s, hw) ==
    Bind(flash_data_pool_allocate(s, 2),
    LAMBDA a :
        IF a.ret = NULL THEN a
        ELSE flash_put_data_internal(a, a.ret, hw))

flash_bool_write_internal(s, p, nr) == flash_program(s, p, << nr, 0 >>)

\* Append a boolean cell; returns its address, or NULL.
flash_bool_write(s, nr) ==
    Bind(flash_data_pool_allocate(s, 2),
    LAMBDA a :
        IF a.ret = NULL THEN a
        ELSE [flash_bool_write_internal(a, a.ret, nr) EXCEPT !.ret = a.ret])

\* Release the boolean cell at p (if any); the caller's pointer becomes NULL.
flash_bool_clear(s, p) ==
    IF p = NULL THEN s ELSE flash_program(s, p, << 0, 0 >>)

\* The two count bytes of a PIN-error cell holding v errors: v bits cleared.
Cnt123Bytes(v) ==
    LET Low(k) == (256 - 2 ^ Min(k, 8)) % 256
    IN  << Low(v), Low(Max(v - 8, 0)) >>

flash_cnt123_get_value(s, p) ==
    IF p = NULL THEN 0
    ELSE ZeroBits(Mem(s, p), 8) + ZeroBits(Mem(s, p + 1), 8)

flash_cnt123_write_internal(s, p, which, v) ==
    flash_program(s, p, << NR_COUNTER_123, which >> \o Cnt123Bytes(v))

\* One more error for PIN 'which': a new cell holding 1, or one more bit cleared.
flash_cnt123_increment(s, which) ==
    LET p == s.pw_err_counter_p[which]
    IN  IF p = NULL
        THEN Bind(flash_data_pool_allocate(s, 4),
             LAMBDA a :
                 IF a.ret = NULL THEN a
                 ELSE [flash_cnt123_write_internal(a, a.ret, which, 1) EXCEPT
                          !.pw_err_counter_p[which] = a.ret + 2])
        ELSE LET v == flash_cnt123_get_value(s, p)
             IN  IF v >= 16 THEN s
                 ELSE flash_program(s, p, Cnt123Bytes(v + 1))

\* Release the cell of PIN 'which'; its pointer becomes NULL.
flash_cnt123_clear(s, which) ==
    LET p == s.pw_err_counter_p[which]
    IN  IF p = NULL THEN s
        ELSE [flash_program(s, p - 2, << 0, 0 >>) EXCEPT
                 !.pw_err_counter_p[which] = NULL]

(***************************************************************************)
(* Digital signature counter (openpgp-do.c:35-78).                         *)
(***************************************************************************)
\* hw0: NR_COUNTER_DS | ((dsc & 0xfc0000) >> 18) | ((dsc & 0x03fc00) >> 2)
DscUpperHw(dsc) ==
    NR_COUNTER_DS + ((dsc \div 262144) % 64) + 256 * ((dsc \div 1024) % 256)

\* hw1: NR_COUNTER_DS_LSB | ((dsc & 0x0300) >> 8) | ((dsc & 0x00ff) << 8)
DscLowerHw(dsc) ==
    NR_COUNTER_DS_LSB + ((dsc \div 256) % 4) + 256 * (dsc % 256)

\* A counter that stays at 0xFFFFFF instead of wrapping.
DscNext_Saturating(dsc) == IF dsc = 16777215 THEN dsc ELSE dsc + 1

\* (digital_signature_counter + 1) & 0x00ffffff
DscNext(dsc) == (dsc + 1) % 16777216

\* The halfwords compaction writes for dsc (openpgp-do.c:37-56).
DscCopyHalfwords(dsc) ==
    IF dsc \div 1024 = 0
    THEN << DscLowerHw(dsc) >>
    ELSE << DscUpperHw(dsc), NR_COUNTER_DS_LSB >>

\* Writes the counter at p; .ret is the address after what was written.
gpg_write_digital_signature_counter(s, p, dsc) ==
    LET hws == DscCopyHalfwords(dsc)
    IN  IF Len(hws) = 1
        THEN [flash_put_data_internal(s, p, hws[1]) EXCEPT !.ret = p + 2]
        ELSE [flash_put_data_internal(
                  flash_put_data_internal(s, p, hws[1]), p + 2, hws[2])
                 EXCEPT !.ret = p + 4]

\* An increment that writes the l10 = 0 cell before the new h14 cell.
DscIncrementHalfwords_LowFirst(dsc) ==
    IF dsc % 1024 = 0
    THEN << NR_COUNTER_DS_LSB, DscUpperHw(dsc) >>
    ELSE << DscLowerHw(dsc) >>

\* The halfwords one increment appends, in order (openpgp-do.c:62-75).
DscIncrementHalfwords(dsc) ==
    IF dsc % 1024 = 0
    THEN << DscUpperHw(dsc), NR_COUNTER_DS_LSB >>
    ELSE << DscLowerHw(dsc) >>

\* An increment that appends no cell.
PutHalfwords_None(s, hws, n) == s

RECURSIVE PutHalfwords(_, _, _)
\* flash_put_data of the first n halfwords of hws, in order.
PutHalfwords(s, hws, n) ==
    IF n = 0 THEN s
    ELSE flash_put_data(PutHalfwords(s, hws, n - 1), hws[n])

\* An increment that assigns the volatile counter before its NV writes.
IncrementDscUpTo_CounterFirst(s, writes) ==
    PutHalfwords([s EXCEPT !.dsc = DscNext(s.dsc)],
                 DscIncrementHalfwords(DscNext(s.dsc)),
                 Min(writes, Len(DscIncrementHalfwords(DscNext(s.dsc)))))

\* The increment, stopped by a power loss after 'writes' of its NV writes
\* (the volatile counter is assigned last, openpgp-do.c:77).
IncrementDscUpTo(s, writes) ==
    LET dsc == DscNext(s.dsc)
        hws == DscIncrementHalfwords(dsc)
        w   == PutHalfwords(s, hws, Min(writes, Len(hws)))
    IN  IF writes >= Len(hws) THEN [w EXCEPT !.dsc = dsc] ELSE w

gpg_increment_digital_signature_counter(s) == IncrementDscUpTo(s, 2)

(***************************************************************************)
(* The response buffer.                                                    *)
(***************************************************************************)
\* *res_p++ = b for each byte b of bs.
Emit(s, bs) ==
    [s EXCEPT !.res_APDU = PutBytes(s.res_APDU, s.res_p, bs, 0),
              !.res_p = s.res_p + Len(bs)]

\* res_p += n, where the n bytes at res_p are left as they are.
Skip(s, n) ==
    [s EXCEPT !.res_APDU = PutBytes(s.res_APDU, s.res_p + n, << >>, 0),
              !.res_p = s.res_p + n]

\* write_res_apdu (NULL, 0, sw1, sw2).
write_res_apdu(s, sw1, sw2) ==
    [s EXCEPT !.res_APDU = PutBytes(s.res_APDU, 1, << sw1, sw2 >>, 0),
              !.res_APDU_size = 2]

GPG_MEMORY_FAILURE(s) == write_res_apdu(s, 101, 129)
GPG_SECURITY_FAILURE(s) == write_res_apdu(s, 105, 130)
GPG_NO_RECORD(s) == write_res_apdu(s, 106, 136)
GPG_ERROR(s) == write_res_apdu(s, 111, 0)
GPG_SUCCESS(s) == write_res_apdu(s, 144, 0)

(***************************************************************************)
(* PIN-error counters (openpgp-do.c:80-110).                               *)
(***************************************************************************)
gpg_get_pw_err_counter(s, which) ==
    flash_cnt123_get_value(s, s.pw_err_counter_p[which])

\* A PIN that locks only after more than PASSWORD_ERRORS_MAX errors.
gpg_passwd_locked_Late(s, which) ==
    IF gpg_get_pw_err_counter(s, which) > PASSWORD_ERRORS_MAX THEN 1 ELSE 0

gpg_passwd_locked(s, which) ==
    IF gpg_get_pw_err_counter(s, which) >= PASSWORD_ERRORS_MAX THEN 1 ELSE 0

gpg_reset_pw_err_counter(s, which) ==
    Bind(flash_cnt123_clear(s, which),
    LAMBDA a :
        IF a.pw_err_counter_p[which] # NULL THEN GPG_MEMORY_FAILURE(a) ELSE a)

gpg_increment_pw_err_counter(s, which) == flash_cnt123_increment(s, which)

gpg_get_pw1_lifetime(s) == IF s.pw1_lifetime_p = NULL THEN 0 ELSE 1

(***************************************************************************)
(* Scan and compaction (openpgp-do.c:921-1057).                            *)
(***************************************************************************)
DoNrs == NR_DO__FIRST__ .. (NR_DO__LAST__ - 1)
PwErrs == { PW_ERR_PW1, PW_ERR_RC, PW_ERR_PW3 }

\* One turn of the loop of gpg_data_scan at address p, where *p is not
\* NR_EMPTY (openpgp-do.c:941-981); .ret is the address of the next turn.  A
\* store through do_ptr[nr - NR_DO__FIRST__] outside the table is recorded
\* in .ub and not performed.
ScanCell(s, p) ==
    LET nr          == Mem(s, p)
        second_byte == Mem(s, p + 1)
    IN  IF nr = 0 /\ second_byte = 0 THEN [s EXCEPT !.ret = p + 2]
        ELSE IF nr < 128
        THEN LET q0 == p + 1 + second_byte + 1
                 q  == q0 + (q0 % 2)
             IN  IF nr \in DoNrs
                 THEN [s EXCEPT !.do_ptr[nr] = p + 1, !.ret = q]
                 ELSE [s EXCEPT !.ub = TRUE, !.ret = q]
        ELSE IF nr <= 191
        THEN [s EXCEPT !.dsc_h14_p = p, !.ret = p + 2]
        ELSE IF nr <= 195
        THEN [s EXCEPT !.dsc_l10_p = p, !.ret = p + 2]
        ELSE IF nr = NR_BOOL_PW1_LIFETIME
        THEN [s EXCEPT !.pw1_lifetime_p = p, !.ret = p + 2]
        ELSE IF nr = NR_COUNTER_123
        THEN IF second_byte <= PW_ERR_PW3
             THEN [s EXCEPT !.pw_err_counter_p[second_byte] = p + 2,
                            !.ret = p + 4]
             ELSE [s EXCEPT !.ret = p + 4]
        ELSE [s EXCEPT !.ret = p + 1]

RECURSIVE ScanFrom(_, _)
\* The loop of gpg_data_scan from address p on (openpgp-do.c:937-982); .ret
\* is the address of the first NR_EMPTY byte.
ScanFrom(s, p) ==
    IF Mem(s, p) = NR_EMPTY THEN [s EXCEPT !.ret = p]
    ELSE ScanFrom(ScanCell(s, p), ScanCell(s, p).ret)

NumPrvKeys(ptrs) ==
    Cardinality({ nr \in { NR_DO_PRVKEY_SIG, NR_DO_PRVKEY_DEC,
                           NR_DO_PRVKEY_AUT } : ptrs[nr] # NULL })

\* A scan that keeps the low bits of an l10 cell written before the last
\* h14 cell.
ScanDsc_NoTornRule(s, dsc_h14_p, dsc_l10_p) ==
    (IF dsc_h14_p = NULL THEN 0
     ELSE (Mem(s, dsc_h14_p) - 128) * 256 + Mem(s, dsc_h14_p + 1)) * 1024
    + (IF dsc_l10_p = NULL THEN 0
       ELSE (Mem(s, dsc_l10_p) - 192) * 256 + Mem(s, dsc_l10_p + 1))

\* The counter gpg_data_scan derives from the last h14 and l10 cells
\* (openpgp-do.c:999-1016).
ScanDsc(s, dsc_h14_p, dsc_l10_p) ==
    LET l10 == IF dsc_l10_p = NULL THEN 0
               ELSE (Mem(s, dsc_l10_p) - 192) * 256 + Mem(s, dsc_l10_p + 1)
        h14 == IF dsc_h14_p = NULL THEN 0
               ELSE (Mem(s, dsc_h14_p) - 128) * 256 + Mem(s, dsc_h14_p + 1)
        low == IF dsc_h14_p # NULL /\ dsc_l10_p # NULL
                  /\ dsc_l10_p < dsc_h14_p
               THEN 0 ELSE l10
    IN  h14 * 1024 + low

gpg_data_scan(s, p_start) ==
    LET s0 == [ pool |-> s.pool, page |-> s.page, keystore |-> s.keystore,
                last_p |-> s.last_p, dsc |-> s.dsc,
                pw_err_counter_p |-> [w \in PwErrs |-> NULL],
                pw1_lifetime_p |-> NULL, do_ptr |-> s.do_ptr,
                num_prv_keys |-> s.num_prv_keys, kd |-> s.kd,
                res_APDU |-> s.res_APDU, res_APDU_size |-> s.res_APDU_size,
                res_p |-> s.res_p, keystring_md_pw3 |-> s.keystring_md_pw3,
                admin |-> s.admin, ret |-> 0, ub |-> s.ub,
                dsc_h14_p |-> NULL, dsc_l10_p |-> NULL ]
        w  == ScanFrom(s0, p_start)
    IN  [ pool |-> w.pool, page |-> w.page, keystore |-> w.keystore,
          last_p |-> w.ret,
          dsc |-> ScanDsc(w, w.dsc_h14_p, w.dsc_l10_p),
          pw_err_counter_p |-> w.pw_err_counter_p,
          pw1_lifetime_p |-> w.pw1_lifetime_p, do_ptr |-> w.do_ptr,
          num_prv_keys |-> NumPrvKeys(w.do_ptr), kd |-> w.kd,
          res_APDU |-> w.res_APDU, res_APDU_size |-> w.res_APDU_size,
          res_p |-> w.res_p, keystring_md_pw3 |-> w.keystring_md_pw3,
          admin |-> w.admin, ret |-> 0, ub |-> w.ub ]

RECURSIVE CopyCounters(_, _, _, _)
\* The loop of openpgp-do.c:1035-1041 over i, i+1, .., 2: reads the old
\* cells of 'old', writes into s at p; .ret is the address after them.
CopyCounters(old, s, p, i) ==
    IF i > 2 THEN [s EXCEPT !.ret = p]
    ELSE LET v == flash_cnt123_get_value(old, old.pw_err_counter_p[i])
         IN  IF v # 0
             THEN CopyCounters(old,
                      [flash_cnt123_write_internal(s, p, i, v) EXCEPT
                          !.pw_err_counter_p[i] = p + 2],
                      p + 4, i + 1)
             ELSE CopyCounters(old, s, p, i + 1)

RECURSIVE CopyDos(_, _, _, _)
\* The loop of openpgp-do.c:1044-1054 over the DO numbers i, i+1, ...
CopyDos(old, s, p, i) ==
    IF i >= NR_DO__LAST__ THEN [s EXCEPT !.ret = p]
    ELSE IF old.do_ptr[i] # NULL
    THEN LET do_data == old.do_ptr[i]
             len     == Mem(old, do_data)
         IN  CopyDos(old,
                 [flash_do_write_internal(s, p, i,
                      MemBytes(old, do_data + 1, len)) EXCEPT
                     !.do_ptr[i] = p + 1],
                 p + 2 + len + (len % 2), i + 1)
    ELSE CopyDos(old, s, p, i + 1)

\* gpg_data_copy that leaves the DO pointers as they were.
gpg_data_copy_StalePointers(s, p_start) ==
    LET fresh == [s EXCEPT !.pool = << >>,
                           !.page = (p_start \div FLASH_PAGE_SIZE) - 1]
        a == gpg_write_digital_signature_counter(fresh, p_start, s.dsc)
        b == IF s.pw1_lifetime_p # NULL
             THEN [flash_bool_write_internal(a, a.ret, NR_BOOL_PW1_LIFETIME)
                      EXCEPT !.pw1_lifetime_p = a.ret, !.ret = a.ret + 2]
             ELSE a
        c == CopyCounters(s, b, b.ret, 0)
        d == CopyDos(s, c, c.ret, NR_DO__FIRST__)
    IN  [flash_set_data_pool_last(d, d.ret) EXCEPT !.do_ptr = s.do_ptr]

\* gpg_data_copy into the erased page that starts at p_start; the page that
\* held the pool is erased afterwards by the caller (flash.c).
gpg_data_copy(s, p_start) ==
    LET fresh == [s EXCEPT !.pool = << >>,
                           !.page = (p_start \div FLASH_PAGE_SIZE) - 1]
        a == gpg_write_digital_signature_counter(fresh, p_start, s.dsc)
        b == IF s.pw1_lifetime_p # NULL
             THEN [flash_bool_write_internal(a, a.ret, NR_BOOL_PW1_LIFETIME)
                      EXCEPT !.pw1_lifetime_p = a.ret, !.ret = a.ret + 2]
             ELSE a
        c == CopyCounters(s, b, b.ret, 0)
        d == CopyDos(s, c, c.ret, NR_DO__FIRST__)
    IN  flash_set_data_pool_last(d, d.ret)

(***************************************************************************)
(* Collaborators: AES-128-CFB128 with a zero IV, SHA-1, the RSA modulus.   *)
(* The block cipher is a toy keyed permutation of 16-byte blocks; the      *)
(* chaining is that of aes_crypt_cfb128.                                   *)
(***************************************************************************)
\* The 16-byte AES key taken from the first bytes of key_str.
AesKey(key_str) == SubSeq(key_str, 1, 16)

\* Byte j of the block cipher applied to a block whose byte j is x.
AesBlockByte(key, x, j) == (x + key[j] + j) % 256

RECURSIVE CfbEncryptBytes(_, _, _)
\* The first n ciphertext bytes: c[i] = p[i] XOR E_key(c[i-16..i-1])[i].
CfbEncryptBytes(key, data, n) ==
    IF n = 0 THEN << >>
    ELSE Bind(IF n % 16 = 0 THEN n - 16 ELSE n - (n % 16),
         LAMBDA m :
         Bind(CfbEncryptBytes(key, data, m),
         LAMBDA prev :
             prev \o
             [i \in 1..(n - m) |->
                 BitXor(data[m + i],
                        AesBlockByte(key,
                            IF m = 0 THEN 0 ELSE prev[m - 16 + i], i))]))

\* encrypt (key_str, data, len) of openpgp-do.c:515-529.
encrypt(key_str, data) ==
    Bind(AesKey(key_str),
    LAMBDA key :
    Bind(data, LAMBDA d : CfbEncryptBytes(key, d, Len(d))))

\* The plaintext bytes: p[i] = c[i] XOR E_key(c[i-16..i-1])[i].
CfbDecryptBytes(key, data) ==
    Bytes([i \in 1..Len(data) |->
              BitXor(data[i],
                     AesBlockByte(key, IF i <= 16 THEN 0 ELSE data[i - 16],
                                  ((i - 1) % 16) + 1))])

\* decrypt (key_str, data, len) of openpgp-do.c:533-547.
decrypt(key_str, data) ==
    Bind(AesKey(key_str),
    LAMBDA key :
    Bind(data, LAMBDA d : CfbDecryptBytes(key, d)))

RECURSIVE SumBytes(_, _)
SumBytes(bs, n) == IF n = 0 THEN 0 ELSE bs[n] + SumBytes(bs, n - 1)

\* A 20-byte digest of msg.
sha1(msg) ==
    Bind(SumBytes(msg, Len(msg)) * 7 + Len(msg) * 13,
    LAMBDA h : Bytes([j \in 1..KEYSTRING_MD_SIZE |-> (h + 31 * j) % 256]))

\* The 256-byte modulus of a private key.
modulus_calc(key_data) ==
    Bytes([i \in 1..(2 * KEY_CONTENT_LEN) |->
              (key_data[((i - 1) % Len(key_data)) + 1] + 3 * i) % 256])

OPENPGP_CARD_INITIAL_PW1 == << 49, 50, 51, 52, 53, 54 >>
OPENPGP_CARD_INITIAL_PW3 == << 49, 50, 51, 52, 53, 54, 55, 56 >>
GNUK_MAGIC == << 71, 110, 117, 107, 32, 75, 69, 89 >>

(***************************************************************************)
(* The flash driver (flash.c): key-slot arena.                             *)
(***************************************************************************)
KeySlots == 1..NumKeySlots
KeySlotSize == 3 * KEY_CONTENT_LEN

keystore_addr(slot) == 16384 + (slot - 1) * KeySlotSize

SlotOf(addr) ==
    IF addr >= 16384 /\ (addr - 16384) % KeySlotSize = 0
       /\ ((addr - 16384) \div KeySlotSize) + 1 \in KeySlots
    THEN ((addr - 16384) \div KeySlotSize) + 1
    ELSE 0

\* A pointer as the four little-endian bytes of a 32-bit word, and back.
PtrBytes(a) == << a % 256, (a \div 256) % 256, (a \div 65536) % 256, 0 >>
BytesPtr(bs) == bs[1] + 256 * bs[2] + 65536 * bs[3]

\* n bytes of the key slot at key_addr from offset off (0-based) on.
KeyMem(s, key_addr, off, n) ==
    LET slot == SlotOf(key_addr)
    IN  Bytes([i \in 1..n |->
                  IF slot # 0 /\ off + i <= Len(s.keystore[slot].bytes)
                  THEN s.keystore[slot].bytes[off + i] ELSE 255])

\* An unused slot, marked allocated; .ret is its address, or NULL.
flash_key_alloc(s) ==
    LET free == { k \in KeySlots : ~s.keystore[k].alloc }
    IN  IF free = {} THEN [s EXCEPT !.ret = NULL]
        ELSE LET k == CHOOSE x \in free : \A y \in free : x <= y
             IN  [s EXCEPT !.keystore[k] = [alloc |-> TRUE, bytes |-> << >>],
                           !.ret = keystore_addr(k)]

\* Writes the encrypted key and the modulus; .ret is 0, or -1 on failure.
flash_key_write(s, key_addr, key_data, modulus, ok) ==
    LET slot == SlotOf(key_addr)
    IN  IF ~ok \/ slot = 0 THEN [s EXCEPT !.ret = -1]
        ELSE [s EXCEPT !.keystore[slot].bytes = key_data \o modulus,
                       !.ret = 0]

flash_key_release(s, key_addr) ==
    LET slot == SlotOf(key_addr)
    IN  IF slot = 0 THEN s
        ELSE [s EXCEPT !.keystore[slot] = [alloc |-> FALSE, bytes |-> << >>]]

(***************************************************************************)
(* Simple DO access (openpgp-do.c:1329-1358).                              *)
(***************************************************************************)
gpg_do_read_simple(s, nr) ==
    IF s.do_ptr[nr] = NULL THEN NULL ELSE s.do_ptr[nr] + 1

\* The argument that stands for a NULL data pointer.
NULL_DATA == << -1 >>

\* gpg_do_write_simple that leaves the old cell of the object in the pool.
gpg_do_write_simple_NoRelease(s, nr, data) ==
    IF data # NULL_DATA
    THEN Bind(flash_do_write(s, nr, data),
         LAMBDA b : [b EXCEPT !.do_ptr[nr] = b.ret])
    ELSE [s EXCEPT !.do_ptr[nr] = NULL]

\* data is NULL_DATA or a byte string (of 'size' bytes).
gpg_do_write_simple(s, nr, data) ==
    Bind(IF s.do_ptr[nr] # NULL
         THEN flash_do_release(s, s.do_ptr[nr]) ELSE s,
    LAMBDA a :
        IF data # NULL_DATA
        THEN Bind(flash_do_write(a, nr, data),
             LAMBDA b : [b EXCEPT !.do_ptr[nr] = b.ret])
        ELSE [a EXCEPT !.do_ptr[nr] = NULL])

(***************************************************************************)
(* The key envelope (openpgp-do.c:531-788).                                *)
(***************************************************************************)
SizeofKeyData == KEY_CONTENT_LEN + 4 + 4 + KEY_MAGIC_LEN
SizeofPrvkeyData == 4 + ADDITIONAL_DATA_SIZE + 3 * DATA_ENCRYPTION_KEY_SIZE

\* Fields of struct key_data, as byte ranges of the 144-byte buffer kd.
KdData(k) == SubSeq(k, 1, KEY_CONTENT_LEN)
KdCrm(k) == SubSeq(k, KEY_CONTENT_LEN + 1, SizeofKeyData)
KdMagic(k) == SubSeq(k, SizeofKeyData - KEY_MAGIC_LEN + 1, SizeofKeyData)

\* Fields of struct prvkey_data, as byte ranges of the 68-byte record pd.
PdKeyAddr(pd) == BytesPtr(SubSeq(pd, 1, 4))
PdCrm(pd) == SubSeq(pd, 5, 4 + ADDITIONAL_DATA_SIZE)
\* DEK copies counted one slot early: copy who read at pd + 4 + 16 * (who - 1).
PdDekOffset_FromCrm(who) == 4 + DATA_ENCRYPTION_KEY_SIZE * (who - 1)
\* DEK copies with the user and the reset-code copy exchanged.
PdDekOffset_RcFirst(who) ==
    4 + DATA_ENCRYPTION_KEY_SIZE
          * (IF who = 1 THEN 2 ELSE IF who = 2 THEN 1 ELSE who)

\* The DEK copy 'who' bytes after the crm field: pd + 4 + 16 * who.
PdDekOffset(who) == 4 + DATA_ENCRYPTION_KEY_SIZE * who
PdDek(pd, who) ==
    Bytes([i \in 1..DATA_ENCRYPTION_KEY_SIZE |-> pd[PdDekOffset(who) + i]])

get_do_ptr_nr_for_kk(kk) ==
    IF kk = GPG_KEY_FOR_SIGNING THEN NR_DO_PRVKEY_SIG
    ELSE IF kk = GPG_KEY_FOR_DECRYPTION THEN NR_DO_PRVKEY_DEC
    ELSE IF kk = GPG_KEY_FOR_AUTHENTICATION THEN NR_DO_PRVKEY_AUT
    ELSE NR_DO_PRVKEY_SIG

\* The sum of the 32-bit little-endian words of data, as 4 little-endian bytes.
calc_check32(data) ==
    LET Lane(k) == SumBytes([i \in 1..(Len(data) \div 4) |-> data[4 * (i - 1) + k]],
                            Len(data) \div 4)
        t1 == Lane(1)
        t2 == Lane(2) + (t1 \div 256)
        t3 == Lane(3) + (t2 \div 256)
        t4 == Lane(4) + (t3 \div 256)
    IN  << t1 % 256, t2 % 256, t3 % 256, t4 % 256 >>

\* The record of the key role whose DO starts (length byte) at do_data.
ReadPd(s, do_data) == MemBytes(s, do_data + 1, SizeofPrvkeyData)

\* gpg_do_load_prvkey: .ret is 1 on success, 0 if none, -1 on error.
gpg_do_load_prvkey(s, kk, who, keystring) ==
    IF s.do_ptr[get_do_ptr_nr_for_kk(kk)] = NULL THEN [s EXCEPT !.ret = 0]
    ELSE Bind(ReadPd(s, s.do_ptr[get_do_ptr_nr_for_kk(kk)]),
         LAMBDA pd :
         Bind(decrypt(decrypt(keystring, PdDek(pd, who)),
                      KeyMem(s, PdKeyAddr(pd), 0, KEY_CONTENT_LEN)
                        \o PdCrm(pd)),
         LAMBDA kd1 :
             [s EXCEPT !.kd = kd1,
                       !.ret = IF KdMagic(kd1) # GNUK_MAGIC THEN -1 ELSE 1]))

\* The old key of a role is dropped and PW1 and RC are reset
\* (openpgp-do.c:670-673).
WritePrvkeyReleaseOld(a, do_data) ==
    flash_do_release(
        flash_key_release(
            gpg_do_write_simple(
                gpg_do_write_simple(a, NR_DO_KEYSTRING_PW1, NULL_DATA),
                NR_DO_KEYSTRING_RC, NULL_DATA),
            PdKeyAddr(ReadPd(a, do_data))),
        do_data)

\* The key count, and the keystrings cut to their length byte once all
\* three keys are registered (openpgp-do.c:732-749).
WritePrvkeyCount(d, do_data, ks_pw1, ks_rc) ==
    IF do_data # NULL THEN [d EXCEPT !.ret = 0]
    ELSE IF d.num_prv_keys + 1 # NUM_ALL_PRV_KEYS
    THEN [d EXCEPT !.num_prv_keys = d.num_prv_keys + 1, !.ret = 0]
    ELSE Bind(IF ks_pw1 # NULL
              THEN gpg_do_write_simple(d, NR_DO_KEYSTRING_PW1,
                                       << Mem(d, ks_pw1) >>)
              ELSE d,
         LAMBDA e1 :
         Bind(IF ks_rc # NULL
              THEN gpg_do_write_simple(e1, NR_DO_KEYSTRING_RC,
                                       << Mem(e1, ks_rc) >>)
              ELSE e1,
         LAMBDA e2 :
              [e2 EXCEPT !.num_prv_keys = d.num_prv_keys + 1, !.ret = 0]))

\* A user DEK copy that is wrapped under the initial PW1 whatever is stored.
UserWrapKey_AlwaysInitial(c, ks_pw1) == sha1(OPENPGP_CARD_INITIAL_PW1)

\* The keystring the user DEK copy is wrapped under: the stored PW1
\* keystring, or that of the initial PW1 (openpgp-do.c:705-716).
UserWrapKey(c, ks_pw1) ==
    IF ks_pw1 # NULL THEN MemBytes(c, ks_pw1 + 1, KEYSTRING_MD_SIZE)
    ELSE sha1(OPENPGP_CARD_INITIAL_PW1)

\* The three DEK copies and the record of the role (openpgp-do.c:700-730).
WritePrvkeyRecord(c, nr, do_data, key_addr, dek, ks_pw1, ks_rc, keystring) ==
    Bind(PtrBytes(key_addr) \o KdCrm(c.kd)
           \o encrypt(UserWrapKey(c, ks_pw1), dek)
           \o (IF ks_rc # NULL
               THEN encrypt(MemBytes(c, ks_rc + 1, KEYSTRING_MD_SIZE), dek)
               ELSE Rep(0, DATA_ENCRYPTION_KEY_SIZE))
           \o encrypt(keystring, dek),
    LAMBDA pd :
    Bind(flash_do_write(c, nr, pd),
    LAMBDA d0 :
        IF d0.ret = NULL
        THEN [d0 EXCEPT !.do_ptr[nr] = NULL, !.ret = -1]
        ELSE WritePrvkeyCount([d0 EXCEPT !.do_ptr[nr] = d0.ret],
                              do_data, ks_pw1, ks_rc)))

\* An import that draws a new DEK also when the role holds a key.
WritePrvkeyKey_FreshDek(a, nr, do_data, key_addr, key_data, keystring, env) ==
    Bind(encrypt(env.dek, SubSeq(key_data, 1, KEY_CONTENT_LEN)
                        \o calc_check32(SubSeq(key_data, 1, KEY_CONTENT_LEN))
                        \o env.random \o GNUK_MAGIC),
    LAMBDA kd1 :
    Bind(flash_key_write(
             [(IF do_data # NULL THEN WritePrvkeyReleaseOld(a, do_data) ELSE a)
                 EXCEPT !.kd = kd1],
             key_addr, KdData(kd1), modulus_calc(key_data), env.key_write_ok),
    LAMBDA c :
        IF c.ret < 0 THEN c
        ELSE WritePrvkeyRecord(c, nr, do_data, key_addr, env.dek,
                 IF do_data # NULL THEN NULL
                 ELSE gpg_do_read_simple(a, NR_DO_KEYSTRING_PW1),
                 IF do_data # NULL THEN NULL
                 ELSE gpg_do_read_simple(a, NR_DO_KEYSTRING_RC),
                 keystring)))

\* The key content is sealed under the DEK and written to the key slot
\* (openpgp-do.c:656-698).
WritePrvkeyKey(a, nr, do_data, key_addr, key_data, keystring, env) ==
    Bind(IF do_data # NULL
         THEN decrypt(a.keystring_md_pw3, PdDek(ReadPd(a, do_data), BY_ADMIN))
         ELSE env.dek,
    LAMBDA dek :
    Bind(encrypt(dek, SubSeq(key_data, 1, KEY_CONTENT_LEN)
                        \o calc_check32(SubSeq(key_data, 1, KEY_CONTENT_LEN))
                        \o env.random \o GNUK_MAGIC),
    LAMBDA kd1 :
    Bind(flash_key_write(
             [(IF do_data # NULL THEN WritePrvkeyReleaseOld(a, do_data) ELSE a)
                 EXCEPT !.kd = kd1],
             key_addr, KdData(kd1), modulus_calc(key_data), env.key_write_ok),
    LAMBDA c :
        IF c.ret < 0 THEN c
        ELSE WritePrvkeyRecord(c, nr, do_data, key_addr, dek,
                 IF do_data # NULL THEN NULL
                 ELSE gpg_do_read_simple(a, NR_DO_KEYSTRING_PW1),
                 IF do_data # NULL THEN NULL
                 ELSE gpg_do_read_simple(a, NR_DO_KEYSTRING_RC),
                 keystring))))

\* gpg_do_write_prvkey: .ret is 0 on success, negative on failure.  env
\* holds what the collaborators answer: malloc_ok, modulus_ok, key_write_ok,
\* the random DEK and the 4 random bytes.
gpg_do_write_prvkey(s, kk, key_data, keystring, env) ==
    IF ~env.malloc_ok \/ ~env.modulus_ok THEN [s EXCEPT !.ret = -1]
    ELSE Bind(flash_key_alloc(s),
         LAMBDA a :
             IF a.ret = NULL THEN [a EXCEPT !.ret = -1]
             ELSE WritePrvkeyKey(a, get_do_ptr_nr_for_kk(kk),
                                 s.do_ptr[get_do_ptr_nr_for_kk(kk)], a.ret,
                                 key_data, keystring, env))

\* dek_p of gpg_do_chks_prvkey for the unlock path who (openpgp-do.c:771),
\* as an offset into pd.
ChksDekP(who) ==
    4 + ADDITIONAL_DATA_SIZE + DATA_ENCRYPTION_KEY_SIZE * (who - 1)

\* The DEK copy at dek_p, and pd with dek stored at dek_p
\* (openpgp-do.c:772-776).
ChksDek(pd, dek_p) == SubSeq(pd, dek_p + 1, dek_p + DATA_ENCRYPTION_KEY_SIZE)
ChksWithDek(pd, dek_p, dek) == PutBytes(pd, dek_p + 1, dek, 0)

\* A rewrap that puts the new DEK copy back into the slot of who_old.
gpg_do_chks_prvkey_InPlace(s, kk, who_old, old_ks, who_new, new_ks, malloc_ok) ==
    LET nr      == get_do_ptr_nr_for_kk(kk)
        do_data == s.do_ptr[nr]
    IN  IF do_data = NULL THEN [s EXCEPT !.ret = 0]
        ELSE IF ~malloc_ok THEN [s EXCEPT !.ret = -1]
        ELSE Bind(ReadPd(s, do_data),
             LAMBDA pd0 :
             Bind(flash_do_write(s, nr,
                      ChksWithDek(pd0, ChksDekP(who_old),
                          encrypt(new_ks,
                              decrypt(old_ks,
                                      ChksDek(pd0, ChksDekP(who_old)))))),
             LAMBDA a0 :
                 [flash_do_release([a0 EXCEPT !.do_ptr[nr] = a0.ret], do_data)
                     EXCEPT !.ret = IF a0.ret = NULL THEN -1 ELSE 1]))

\* gpg_do_chks_prvkey up to the assignment of do_ptr, before the old record
\* is released (openpgp-do.c:770-780); .ret is the new cell, or NULL.
ChksWritten(s, nr, do_data, who_old, old_ks, who_new, new_ks) ==
    Bind(ReadPd(s, do_data),
    LAMBDA pd0 :
    Bind(flash_do_write(s, nr,
             ChksWithDek(pd0,
                 ChksDekP(who_old)
                   + DATA_ENCRYPTION_KEY_SIZE * (who_new - who_old),
                 encrypt(new_ks,
                     decrypt(old_ks, ChksDek(pd0, ChksDekP(who_old)))))),
    LAMBDA a0 : [a0 EXCEPT !.do_ptr[nr] = a0.ret]))

\* gpg_do_chks_prvkey: .ret is 1 on success, 0 if no key, -1 on error.
gpg_do_chks_prvkey(s, kk, who_old, old_ks, who_new, new_ks, malloc_ok) ==
    LET nr      == get_do_ptr_nr_for_kk(kk)
        do_data == s.do_ptr[nr]
    IN  IF do_data = NULL THEN [s EXCEPT !.ret = 0]
        ELSE IF ~malloc_ok THEN [s EXCEPT !.ret = -1]
        ELSE Bind(ChksWritten(s, nr, do_data, who_old, old_ks, who_new, new_ks),
             LAMBDA a0 :
                 [flash_do_release(a0, do_data)
                     EXCEPT !.ret = IF a0.ret = NULL THEN -1 ELSE 1])

(***************************************************************************)
(* The DO catalog (openpgp-do.c:121-168, 848-914).                         *)
(***************************************************************************)
openpgpcard_aid ==
    << 16, 210, 118, 0, 1, 36, 1, 2, 0, 245, 23, 0, 0, 0, 1, 0, 0 >>
historical_bytes == << 10, 0, 49, 128, 115, 128, 1, 64, 0, 144, 0 >>
extended_capabilities == << 10, 48, 0, 0, 0, 0, 0, 1, 6, 1, 2 >>
algorithm_attr == << 6, 1, 8, 0, 0, 32, 0 >>

cmp_ch_data == << GPG_DO_NAME, GPG_DO_LANGUAGE, GPG_DO_SEX >>
cmp_app_data ==
    << GPG_DO_AID, GPG_DO_HIST_BYTES, GPG_DO_EXTCAP, GPG_DO_ALG_SIG,
       GPG_DO_ALG_DEC, GPG_DO_ALG_AUT, GPG_DO_PW_STATUS, GPG_DO_FP_ALL,
       GPG_DO_CAFP_ALL, GPG_DO_KGTIME_ALL >>
cmp_ss_temp == << GPG_DO_DS_COUNT >>

Entry(tag, do_type, ac_read, ac_write, obj) ==
    [ tag |-> tag, do_type |-> do_type, ac_read |-> ac_read,
      ac_write |-> ac_write, obj |-> obj ]

\* For a DO_VAR entry obj is the DO number nr of its slot &do_ptr[nr - 1].
gpg_do_table ==
    << Entry(GPG_DO_SEX, "DO_VAR", AC_ALWAYS, AC_ADMIN_AUTHORIZED, NR_DO_SEX),
       Entry(GPG_DO_FP_SIG, "DO_VAR", AC_ALWAYS, AC_ADMIN_AUTHORIZED, NR_DO_FP_SIG),
       Entry(GPG_DO_FP_DEC, "DO_VAR", AC_ALWAYS, AC_ADMIN_AUTHORIZED, NR_DO_FP_DEC),
       Entry(GPG_DO_FP_AUT, "DO_VAR", AC_ALWAYS, AC_ADMIN_AUTHORIZED, NR_DO_FP_AUT),
       Entry(GPG_DO_CAFP_1, "DO_VAR", AC_ALWAYS, AC_ADMIN_AUTHORIZED, NR_DO_CAFP_1),
       Entry(GPG_DO_CAFP_2, "DO_VAR", AC_ALWAYS, AC_ADMIN_AUTHORIZED, NR_DO_CAFP_2),
       Entry(GPG_DO_CAFP_3, "DO_VAR", AC_ALWAYS, AC_ADMIN_AUTHORIZED, NR_DO_CAFP_3),
       Entry(GPG_DO_KGTIME_SIG, "DO_VAR", AC_ALWAYS, AC_ADMIN_AUTHORIZED, NR_DO_KGTIME_SIG),
       Entry(GPG_DO_KGTIME_DEC, "DO_VAR", AC_ALWAYS, AC_ADMIN_AUTHORIZED, NR_DO_KGTIME_DEC),
       Entry(GPG_DO_KGTIME_AUT, "DO_VAR", AC_ALWAYS, AC_ADMIN_AUTHORIZED, NR_DO_KGTIME_AUT),
       Entry(GPG_DO_LOGIN_DATA, "DO_VAR", AC_ALWAYS, AC_ADMIN_AUTHORIZED, NR_DO_LOGIN_DATA),
       Entry(GPG_DO_URL, "DO_VAR", AC_ALWAYS, AC_ADMIN_AUTHORIZED, NR_DO_URL),
       Entry(GPG_DO_NAME, "DO_VAR", AC_ALWAYS, AC_ADMIN_AUTHORIZED, NR_DO_NAME),
       Entry(GPG_DO_LANGUAGE, "DO_VAR", AC_ALWAYS, AC_ADMIN_AUTHORIZED, NR_DO_LANGUAGE),
       Entry(GPG_DO_HIST_BYTES, "DO_PROC_READ", AC_ALWAYS, AC_NEVER, "do_hist_bytes"),
       Entry(GPG_DO_FP_ALL, "DO_PROC_READ", AC_ALWAYS, AC_NEVER, "do_fp_all"),
       Entry(GPG_DO_CAFP_ALL, "DO_PROC_READ", AC_ALWAYS, AC_NEVER, "do_cafp_all"),
       Entry(GPG_DO_KGTIME_ALL, "DO_PROC_READ", AC_ALWAYS, AC_NEVER, "do_kgtime_all"),
       Entry(GPG_DO_DS_COUNT, "DO_PROC_READ", AC_ALWAYS, AC_NEVER, "do_ds_count"),
       Entry(GPG_DO_PW_STATUS, "DO_PROC_READWRITE", AC_ALWAYS, AC_ADMIN_AUTHORIZED, "rw_pw_status"),
       Entry(GPG_DO_AID, "DO_FIXED", AC_ALWAYS, AC_NEVER, openpgpcard_aid),
       Entry(GPG_DO_EXTCAP, "DO_FIXED", AC_ALWAYS, AC_NEVER, extended_capabilities),
       Entry(GPG_DO_ALG_SIG, "DO_FIXED", AC_ALWAYS, AC_NEVER, algorithm_attr),
       Entry(GPG_DO_ALG_DEC, "DO_FIXED", AC_ALWAYS, AC_NEVER, algorithm_attr),
       Entry(GPG_DO_ALG_AUT, "DO_FIXED", AC_ALWAYS, AC_NEVER, algorithm_attr),
       Entry(GPG_DO_CH_DATA, "DO_CMP_READ", AC_ALWAYS, AC_NEVER, cmp_ch_data),
       Entry(GPG_DO_APP_DATA, "DO_CMP_READ", AC_ALWAYS, AC_NEVER, cmp_app_data),
       Entry(GPG_DO_SS_TEMP, "DO_CMP_READ", AC_ALWAYS, AC_NEVER, cmp_ss_temp),
       Entry(GPG_DO_RESETTING_CODE, "DO_PROC_WRITE", AC_NEVER, AC_ADMIN_AUTHORIZED, "proc_resetting_code"),
       Entry(GPG_DO_KEY_IMPORT, "DO_PROC_WRITE", AC_NEVER, AC_ADMIN_AUTHORIZED, "proc_key_import"),
       Entry(GPG_DO_CH_CERTIFICATE, "DO_PROC_READWRITE", AC_NEVER, AC_NEVER, "NULL") >>

NUM_DO_ENTRIES == Len(gpg_do_table)

\* Index of the first entry with this tag, or NULL.
get_do_entry(tag) ==
    IF \E i \in 1..NUM_DO_ENTRIES : gpg_do_table[i].tag = tag
    THEN CHOOSE i \in 1..NUM_DO_ENTRIES :
            /\ gpg_do_table[i].tag = tag
            /\ \A j \in 1..(i - 1) : gpg_do_table[j].tag # tag
    ELSE NULL

\* fatal () on any other tag; no caller passes one.
do_tag_to_nr(tag) ==
    CASE tag = GPG_DO_SEX -> NR_DO_SEX
      [] tag = GPG_DO_FP_SIG -> NR_DO_FP_SIG
      [] tag = GPG_DO_FP_DEC -> NR_DO_FP_DEC
      [] tag = GPG_DO_FP_AUT -> NR_DO_FP_AUT
      [] tag = GPG_DO_CAFP_1 -> NR_DO_CAFP_1
      [] tag = GPG_DO_CAFP_2 -> NR_DO_CAFP_2
      [] tag = GPG_DO_CAFP_3 -> NR_DO_CAFP_3
      [] tag = GPG_DO_KGTIME_SIG -> NR_DO_KGTIME_SIG
      [] tag = GPG_DO_KGTIME_DEC -> NR_DO_KGTIME_DEC
      [] tag = GPG_DO_KGTIME_AUT -> NR_DO_KGTIME_AUT
      [] tag = GPG_DO_LOGIN_DATA -> NR_DO_LOGIN_DATA
      [] tag = GPG_DO_URL -> NR_DO_URL
      [] tag = GPG_DO_NAME -> NR_DO_NAME
      [] tag = GPG_DO_LANGUAGE -> NR_DO_LANGUAGE

\* ac.c: whether the access condition ac_flag is satisfied.
ac_check_status(s, ac_flag) ==
    IF ac_flag = AC_ALWAYS THEN TRUE
    ELSE IF ac_flag = AC_NEVER THEN FALSE
    ELSE ac_flag = AC_ADMIN_AUTHORIZED /\ s.admin

copy_tag(s, tag) ==
    IF tag < 256 THEN Emit(s, << tag % 256 >>)
    ELSE Emit(s, << tag \div 256, tag % 256 >>)

\* copy_do_1 that copies the bytes after the one the length byte names.
copy_do_1_Shifted(s, tag, do_data, with_tag) ==
    Emit(IF with_tag THEN copy_tag(s, tag) ELSE s,
         SubSeq(do_data, 1, do_data[1]))

\* do_data is the length-prefixed byte string the C pointer refers to.
copy_do_1(s, tag, do_data, with_tag) ==
    IF with_tag
    THEN Bind(copy_tag(s, tag),
         LAMBDA a :
             Emit(IF do_data[1] >= 128 THEN Emit(a, << 129 >>) ELSE a,
                  SubSeq(do_data, 1, do_data[1] + 1)))
    ELSE Emit(s, SubSeq(do_data, 2, do_data[1] + 1))

\* The length-prefixed bytes of the DO cell whose length byte is at do_data.
DoBytes(s, do_data) == MemBytes(s, do_data, 1 + Mem(s, do_data))

(***************************************************************************)
(* Read handlers (openpgp-do.c:299-471).                                   *)
(***************************************************************************)
do_hist_bytes(s, tag, with_tag) ==
    [copy_do_1(s, tag, historical_bytes, with_tag) EXCEPT !.ret = 1]

\* memcpy of 'size' bytes of the DO nr, or memset 0 when it is absent.
SimpleOrZero(s, nr, size) ==
    LET data == gpg_do_read_simple(s, nr)
    IN  IF data # NULL THEN MemBytes(s, data, size) ELSE Rep(0, size)

\* The tag and length header of the three concatenating handlers.
AllHeader(s, tag, with_tag, size) ==
    IF with_tag THEN Emit(copy_tag(s, tag), << size * 3 >>) ELSE s

do_fp_all(s, tag, with_tag) ==
    [Emit(AllHeader(s, tag, with_tag, SIZE_FP),
          SimpleOrZero(s, NR_DO_FP_SIG, SIZE_FP)
            \o SimpleOrZero(s, NR_DO_FP_DEC, SIZE_FP)
            \o SimpleOrZero(s, NR_DO_FP_AUT, SIZE_FP))
        EXCEPT !.ret = 1]

do_cafp_all(s, tag, with_tag) ==
    [Emit(AllHeader(s, tag, with_tag, SIZE_FP),
          SimpleOrZero(s, NR_DO_CAFP_1, SIZE_FP)
            \o SimpleOrZero(s, NR_DO_CAFP_2, SIZE_FP)
            \o SimpleOrZero(s, NR_DO_CAFP_2, SIZE_FP))
        EXCEPT !.ret = 1]

do_kgtime_all(s, tag, with_tag) ==
    [Emit(AllHeader(s, tag, with_tag, SIZE_KGTIME),
          SimpleOrZero(s, NR_DO_KGTIME_SIG, SIZE_KGTIME)
            \o SimpleOrZero(s, NR_DO_KGTIME_DEC, SIZE_KGTIME)
            \o SimpleOrZero(s, NR_DO_KGTIME_AUT, SIZE_KGTIME))
        EXCEPT !.ret = 1]

do_ds_count(s, tag, with_tag) ==
    [Emit(IF with_tag THEN Emit(copy_tag(s, tag), << 3 >>) ELSE s,
          << (s.dsc \div 65536) % 256, (s.dsc \div 256) % 256, s.dsc % 256 >>)
        EXCEPT !.ret = 1]

\* rw_pw_status that reports the retry counter of the resetting code before
\* that of PW1.
rw_pw_status_RcFirst(s, tag, with_tag, data, is_write) ==
    IF is_write
    THEN IF data[1] = 0
         THEN [flash_bool_clear(s, s.pw1_lifetime_p) EXCEPT
                  !.pw1_lifetime_p = NULL, !.ret = 1]
         ELSE LET a == flash_bool_write(s, NR_BOOL_PW1_LIFETIME)
              IN  [a EXCEPT !.pw1_lifetime_p = a.ret,
                            !.ret = IF a.ret # NULL THEN 1 ELSE 0]
    ELSE LET a == IF with_tag
                  THEN Emit(copy_tag(s, tag), << SIZE_PW_STATUS_BYTES >>)
                  ELSE s
         IN  [Emit(a, << gpg_get_pw1_lifetime(s), PW_LEN_MAX, PW_LEN_MAX,
                         PW_LEN_MAX,
                         (PASSWORD_ERRORS_MAX
                            - gpg_get_pw_err_counter(s, PW_ERR_RC)) % 256,
                         (PASSWORD_ERRORS_MAX
                            - gpg_get_pw_err_counter(s, PW_ERR_PW1)) % 256,
                         (PASSWORD_ERRORS_MAX
                            - gpg_get_pw_err_counter(s, PW_ERR_PW3)) % 256 >>)
                 EXCEPT !.ret = 1]

\* rw_pw_status; data is read only when is_write.
rw_pw_status(s, tag, with_tag, data, is_write) ==
    IF is_write
    THEN IF data[1] = 0
         THEN [flash_bool_clear(s, s.pw1_lifetime_p) EXCEPT
                  !.pw1_lifetime_p = NULL, !.ret = 1]
         ELSE LET a == flash_bool_write(s, NR_BOOL_PW1_LIFETIME)
              IN  [a EXCEPT !.pw1_lifetime_p = a.ret,
                            !.ret = IF a.ret # NULL THEN 1 ELSE 0]
    ELSE LET a == IF with_tag
                  THEN Emit(copy_tag(s, tag), << SIZE_PW_STATUS_BYTES >>)
                  ELSE s
         IN  [Emit(a, << gpg_get_pw1_lifetime(s), PW_LEN_MAX, PW_LEN_MAX,
                         PW_LEN_MAX,
                         (PASSWORD_ERRORS_MAX
                            - gpg_get_pw_err_counter(s, PW_ERR_PW1)) % 256,
                         (PASSWORD_ERRORS_MAX
                            - gpg_get_pw_err_counter(s, PW_ERR_RC)) % 256,
                         (PASSWORD_ERRORS_MAX
                            - gpg_get_pw_err_counter(s, PW_ERR_PW3)) % 256 >>)
                 EXCEPT !.ret = 1]

(***************************************************************************)
(* Write handlers (openpgp-do.c:473-513, 799-846).                         *)
(***************************************************************************)
KindsOfKey ==
    << GPG_KEY_FOR_SIGNING, GPG_KEY_FOR_DECRYPTION, GPG_KEY_FOR_AUTHENTICATION >>

RECURSIVE ChangeKeystringFrom(_, _, _, _, _, _, _, _)
\* openpgp.c: for each key role from KindsOfKey[i] on, check old_ks by
\* loading the key, then rewrap; .ret is the number of keys rewrapped, -1
\* when old_ks does not open a key, -3 when a rewrap fails; malloc_ok is
\* what malloc answers in the rewraps.
ChangeKeystringFrom(s, i, n, who_old, old_ks, who_new, new_ks, malloc_ok) ==
    IF i > NUM_ALL_PRV_KEYS THEN [s EXCEPT !.ret = n]
    ELSE Bind(gpg_do_load_prvkey(s, KindsOfKey[i], who_old, old_ks),
         LAMBDA a :
             IF a.ret < 0 THEN a
             ELSE Bind(gpg_do_chks_prvkey(a, KindsOfKey[i], who_old, old_ks,
                                          who_new, new_ks, malloc_ok),
                  LAMBDA b :
                      IF b.ret < 0 THEN [b EXCEPT !.ret = -3]
                      ELSE ChangeKeystringFrom(b, i + 1, n + a.ret, who_old,
                                               old_ks, who_new, new_ks,
                                               malloc_ok)))

gpg_change_keystring(s, who_old, old_ks, who_new, new_ks, malloc_ok) ==
    Bind(ChangeKeystringFrom(s, 1, 0, who_old, old_ks, who_new, new_ks,
                             malloc_ok),
    LAMBDA a : IF a.ret > 0 THEN [a EXCEPT !.ret = 1] ELSE a)

\* The resetting code whose keystring is stored whole, without a look at
\* the private keys.
proc_resetting_code_AlwaysFull(s, data, env) ==
    [gpg_reset_pw_err_counter(
         gpg_do_write_simple(s, NR_DO_KEYSTRING_RC,
                             << Len(data) % 256 >> \o sha1(data)),
         PW_ERR_RC)
        EXCEPT !.ret = 1]

\* openpgp-do.c:473-513; env.malloc_ok is what malloc answers in the
\* rewraps of gpg_change_keystring.
proc_resetting_code(s, data, env) ==
    Bind(<< Len(data) % 256 >> \o sha1(data),
    LAMBDA new_ks0 :
    Bind(gpg_change_keystring(s, BY_ADMIN, s.keystring_md_pw3, BY_RESETCODE,
                              SubSeq(new_ks0, 2, Len(new_ks0)),
                              env.malloc_ok),
    LAMBDA a :
        IF a.ret < -2 THEN [a EXCEPT !.ret = 0]
        ELSE IF a.ret < 0 THEN [a EXCEPT !.ret = 0]
        ELSE [gpg_reset_pw_err_counter(
                  gpg_do_write_simple(a, NR_DO_KEYSTRING_RC,
                      SubSeq(new_ks0, 1,
                             IF a.ret = 0 THEN KEYSTRING_SIZE_RC ELSE 1)),
                  PW_ERR_RC)
                 EXCEPT !.ret = 1]))

\* The key role named by the byte data[4] of the Extended Header List.
KeyKindOfByte(b) ==
    IF b = 182 THEN GPG_KEY_FOR_SIGNING
    ELSE IF b = 184 THEN GPG_KEY_FOR_DECRYPTION
    ELSE GPG_KEY_FOR_AUTHENTICATION

\* Deletion of the key of role kk (openpgp-do.c:814-837).
KeyDeletion(s, nr, do_data) ==
    Bind([(IF do_data # NULL
           THEN flash_do_release(
                    flash_key_release(s, PdKeyAddr(ReadPd(s, do_data))),
                    do_data)
           ELSE s)
             EXCEPT !.do_ptr[nr] = NULL,
                    !.num_prv_keys = s.num_prv_keys - 1],
    LAMBDA b :
        [(IF b.num_prv_keys = 0
          THEN gpg_do_write_simple(
                   gpg_do_write_simple(b, NR_DO_KEYSTRING_PW1, NULL_DATA),
                   NR_DO_KEYSTRING_RC, NULL_DATA)
          ELSE b)
            EXCEPT !.ret = 1])

proc_key_import(s, data, env) ==
    IF Len(data) <= 22
    THEN KeyDeletion(s, get_do_ptr_nr_for_kk(KeyKindOfByte(data[5])),
                     s.do_ptr[get_do_ptr_nr_for_kk(KeyKindOfByte(data[5]))])
    ELSE Bind(gpg_do_write_prvkey(s, KeyKindOfByte(data[5]),
                                  SubSeq(data, 27, Len(data)),
                                  s.keystring_md_pw3, env),
         LAMBDA w : [w EXCEPT !.ret = IF w.ret < 0 THEN 0 ELSE 1])

(***************************************************************************)
(* GET DATA / PUT DATA (openpgp-do.c:1095-1327).                           *)
(***************************************************************************)
ReadProc(s, name, tag, with_tag) ==
    IF name = "do_hist_bytes" THEN do_hist_bytes(s, tag, with_tag)
    ELSE IF name = "do_fp_all" THEN do_fp_all(s, tag, with_tag)
    ELSE IF name = "do_cafp_all" THEN do_cafp_all(s, tag, with_tag)
    ELSE IF name = "do_kgtime_all" THEN do_kgtime_all(s, tag, with_tag)
    ELSE do_ds_count(s, tag, with_tag)

RECURSIVE copy_do(_, _, _)
RECURSIVE CopyComponents(_, _, _)

\* The loop of openpgp-do.c:1136-1145 over the components i, i+1, ...;
\* .ret is -1 as soon as one component fails.
CopyComponents(s, cmp_data, i) ==
    IF i > Len(cmp_data) THEN [s EXCEPT !.ret = 1]
    ELSE Bind(copy_do(s, get_do_entry(cmp_data[i]), TRUE),
         LAMBDA a :
             IF a.ret < 0 THEN [a EXCEPT !.ret = -1]
             ELSE CopyComponents(a, cmp_data, i + 1))

\* The DO_CMP_READ case of copy_do (openpgp-do.c:1124-1149).
CopyCompound(s, e) ==
    Bind(Emit(copy_tag(s, e.tag), << 129 >>),
    LAMBDA a :
    Bind(CopyComponents(Emit(a, << 0 >>), e.obj, 1),
    LAMBDA b :
        IF b.ret < 0 THEN b
        ELSE [b EXCEPT !.res_APDU[a.res_p] = (b.res_p - a.res_p) % 256,
                       !.ret = 1]))

\* The switch of copy_do on the type of the entry e (openpgp-do.c:1104-1167).
\* Calling the NULL handler of an entry is recorded in .ub.
CopyByType(s, e, with_tag) ==
    IF e.do_type = "DO_FIXED"
    THEN [copy_do_1(s, e.tag, e.obj, with_tag) EXCEPT !.ret = 1]
    ELSE IF e.do_type = "DO_VAR"
    THEN IF s.do_ptr[e.obj] = NULL THEN [s EXCEPT !.ret = 0]
         ELSE [copy_do_1(s, e.tag, DoBytes(s, s.do_ptr[e.obj]), with_tag)
                  EXCEPT !.ret = 1]
    ELSE IF e.do_type = "DO_CMP_READ" THEN CopyCompound(s, e)
    ELSE IF e.do_type = "DO_PROC_READ"
    THEN ReadProc(s, e.obj, e.tag, with_tag)
    ELSE IF e.do_type = "DO_PROC_READWRITE"
    THEN IF e.obj = "NULL" THEN [s EXCEPT !.ub = TRUE, !.ret = -1]
         ELSE rw_pw_status(s, e.tag, with_tag, << >>, FALSE)
    ELSE [s EXCEPT !.ret = -1]

\* copy_do that reads the entry without looking at its access condition.
CopyEntry_Unchecked(s, e, with_tag) == CopyByType(s, e, with_tag)

\* The entry e of gpg_do_table is read if its access condition allows it.
CopyEntry(s, e, with_tag) ==
    IF ~ac_check_status(s, e.ac_read) THEN [s EXCEPT !.ret = -1]
    ELSE CopyByType(s, e, with_tag)

\* do_p is an index of gpg_do_table, or NULL.
copy_do(s, do_p, with_tag) ==
    IF do_p = NULL THEN [s EXCEPT !.ret = 0]
    ELSE CopyEntry(s, gpg_do_table[do_p], with_tag)

gpg_do_get_data(s, tag) ==
    IF get_do_entry(tag) = NULL THEN GPG_NO_RECORD([s EXCEPT !.res_p = 1])
    ELSE Bind(copy_do([s EXCEPT !.res_p = 1], get_do_entry(tag), FALSE),
         LAMBDA a :
             IF a.ret < 0 THEN GPG_SECURITY_FAILURE(a)
             ELSE [Emit(a, << 144, 0 >>) EXCEPT !.res_APDU_size = a.res_p + 1])

\* The DO_VAR case of gpg_do_put_data (openpgp-do.c:1223-1246).
PutVar(s, tag, nr, data) ==
    Bind(IF s.do_ptr[nr] # NULL THEN flash_do_release(s, s.do_ptr[nr]) ELSE s,
    LAMBDA rel :
        IF Len(data) = 0 THEN [rel EXCEPT !.do_ptr[nr] = NULL]
        ELSE IF Len(data) > 255 THEN GPG_MEMORY_FAILURE(rel)
        ELSE Bind(flash_do_write(rel, do_tag_to_nr(tag), data),
             LAMBDA wr :
                 IF wr.ret # NULL
                 THEN GPG_SUCCESS([wr EXCEPT !.do_ptr[nr] = wr.ret])
                 ELSE GPG_MEMORY_FAILURE([wr EXCEPT !.do_ptr[nr] = NULL])))

\* The handler call of the DO_PROC_READWRITE and DO_PROC_WRITE cases
\* (openpgp-do.c:1247-1268).
WriteProc(s, e, tag, data, env) ==
    IF e.do_type = "DO_PROC_READWRITE"
    THEN IF e.obj = "NULL" THEN [s EXCEPT !.ub = TRUE, !.ret = 0]
         ELSE rw_pw_status(s, tag, FALSE, data, TRUE)
    ELSE IF e.obj = "proc_resetting_code" THEN proc_resetting_code(s, data, env)
    ELSE proc_key_import(s, data, env)

\* A PUT DATA that does not look at the write access condition.
PutEntry_Unchecked(s, e, tag, data, env) ==
    IF e.do_type \in { "DO_FIXED", "DO_CMP_READ", "DO_PROC_READ" }
    THEN GPG_SECURITY_FAILURE(s)
    ELSE IF e.do_type = "DO_VAR" THEN PutVar(s, tag, e.obj, data)
    ELSE Bind(WriteProc(s, e, tag, data, env),
         LAMBDA r : IF r.ret # 0 THEN GPG_SUCCESS(r) ELSE GPG_ERROR(r))

\* The entry e of gpg_do_table is written.
PutEntry(s, e, tag, data, env) ==
    IF ~ac_check_status(s, e.ac_write) THEN GPG_SECURITY_FAILURE(s)
    ELSE IF e.do_type \in { "DO_FIXED", "DO_CMP_READ", "DO_PROC_READ" }
    THEN GPG_SECURITY_FAILURE(s)
    ELSE IF e.do_type = "DO_VAR" THEN PutVar(s, tag, e.obj, data)
    ELSE Bind(WriteProc(s, e, tag, data, env),
         LAMBDA r : IF r.ret # 0 THEN GPG_SUCCESS(r) ELSE GPG_ERROR(r))

\* env holds what the collaborators answer during a key import.
gpg_do_put_data(s, tag, data, env) ==
    IF get_do_entry(tag) = NULL THEN GPG_NO_RECORD(s)
    ELSE PutEntry(s, gpg_do_table[get_do_entry(tag)], tag, data, env)

\* The key role GET PUBLIC KEY selects by kk_byte.
PublicKeyNr(kk_byte) ==
    IF kk_byte = 182 THEN NR_DO_PRVKEY_SIG
    ELSE IF kk_byte = 184 THEN NR_DO_PRVKEY_DEC
    ELSE NR_DO_PRVKEY_AUT

gpg_do_public_key(s, kk_byte) ==
    IF s.do_ptr[PublicKeyNr(kk_byte)] = NULL THEN GPG_NO_RECORD(s)
    ELSE Bind(Emit(
                 \* memcpy of KEY_CONTENT_LEN bytes, then res_p += 256
                 Skip(Emit(Emit([s EXCEPT !.res_p = 1],
                                << 127, 73, 130, 1, 9, 129, 130, 1, 0 >>),
                           KeyMem(s, PdKeyAddr(ReadPd(s,
                                         s.do_ptr[PublicKeyNr(kk_byte)])),
                                  KEY_CONTENT_LEN, KEY_CONTENT_LEN)),
                      256 - KEY_CONTENT_LEN),
                 << 130, 3, 1, 0, 1, 144, 0 >>),
         LAMBDA c : [c EXCEPT !.res_APDU_size = c.res_p - 1])

(***************************************************************************)
(* The state machine.                                                      *)
(***************************************************************************)
\* The volatile state of a card that has just been powered on, over the NV
\* state nv (pool, page, keystore).
PowerOn(nv_pool, nv_page, nv_keystore) ==
    [ pool |-> nv_pool, page |-> nv_page, keystore |-> nv_keystore,
      last_p |-> data_pool(nv_page), dsc |-> 0,
      pw_err_counter_p |-> [w \in PwErrs |-> NULL],
      pw1_lifetime_p |-> NULL, do_ptr |-> [nr \in DoNrs |-> NULL],
      num_prv_keys |-> 0, kd |-> Rep(0, SizeofKeyData),
      res_APDU |-> << >>, res_APDU_size |-> 0, res_p |-> 1,
      keystring_md_pw3 |-> Rep(0, KEYSTRING_MD_SIZE), admin |-> FALSE,
      ret |-> 0, ub |-> FALSE ]

\* Power on and gpg_data_scan of the data pool.
BootState(nv_pool, nv_page, nv_keystore) ==
    gpg_data_scan(PowerOn(nv_pool, nv_page, nv_keystore), data_pool(nv_page))

\* The program variables hold the machine state s.
StartsAs(s) ==
    /\ pool = s.pool
    /\ pool_page = s.page
    /\ keystore = s.keystore
    /\ last_p = s.last_p
    /\ digital_signature_counter = s.dsc
    /\ pw_err_counter_p = s.pw_err_counter_p
    /\ pw1_lifetime_p = s.pw1_lifetime_p
    /\ do_ptr = s.do_ptr
    /\ num_prv_keys = s.num_prv_keys
    /\ kd = s.kd
    /\ res_APDU = s.res_APDU
    /\ res_APDU_size = s.res_APDU_size
    /\ keystring_md_pw3 = s.keystring_md_pw3
    /\ admin_authorized = s.admin

EmptyKeystore == [k \in KeySlots |-> [alloc |-> FALSE, bytes |-> << >>]]

\* What hist keeps of a key role before a rewrap: whether old_ks opened the
\* key, the key it opened, and the record of the role.
NoPre == [ ok |-> FALSE, key |-> << >>, pd |-> << >> ]

RECURSIVE WrittenCells(_, _, _)
\* The header addresses of the cells written, one after the other, from
\* address p up to address 'to': DO cells with their length, PIN-error cells
\* of four bytes, and cells of one halfword.
WrittenCells(r, p, to) ==
    IF p >= to THEN {}
    ELSE { p } \cup
         WrittenCells(r,
             IF Mem(r, p) < 128
             THEN p + 2 + Mem(r, p + 1) + (Mem(r, p + 1) % 2)
             ELSE IF Mem(r, p) = NR_COUNTER_123 THEN p + 4
             ELSE p + 2,
             to)

\* The header addresses of all cells written to the current pool page,
\* released or not, after an operation from state s to state r: those known
\* before and those the operation appended.  No cell lies beyond the last
\* programmed byte, wherever a scan has put last_p.
CellsAfter(s, r) ==
    LET written == data_pool(r.page) + Len(r.pool)
        to      == IF r.last_p < written THEN r.last_p ELSE written
    IN  IF r.page # s.page
        THEN WrittenCells(r, data_pool(r.page), to)
        ELSE (IF hist = << >> THEN {} ELSE hist[1].cells)
               \cup WrittenCells(r, s.last_p, to)

\* Where the cell of the DO nr is and what its payload is, in state s.
DoCell(s, nr) ==
    [ p |-> s.do_ptr[nr],
      data |-> IF s.do_ptr[nr] = NULL THEN << >>
               ELSE MemBytes(s, s.do_ptr[nr] + 1, Mem(s, s.do_ptr[nr])) ]

\* What one operation leaves in hist: the operation and its arguments, the
\* state s it started in (admin, dsc, pw_err, pw1_set, rc, num_prv_keys, prv,
\* pre), what
\* it answered in r, and the cells written so far.
HistRecPre(op, tag, data, s, r, pre) ==
    [ op |-> op, tag |-> tag, data |-> data, admin |-> s.admin,
      dsc |-> s.dsc, ret |-> r.ret, ub |-> r.ub,
      pw_err |-> [w \in PwErrs |-> gpg_get_pw_err_counter(s, w)],
      pw1_set |-> s.do_ptr[NR_DO_KEYSTRING_PW1] # NULL,
      rc |-> DoCell(s, NR_DO_KEYSTRING_RC),
      num_prv_keys |-> s.num_prv_keys,
      prv |-> [kk \in 0..(NUM_ALL_PRV_KEYS - 1) |->
                  s.do_ptr[get_do_ptr_nr_for_kk(kk)] # NULL],
      pre |-> pre, cells |-> CellsAfter(s, r),
      resp |-> SubSeq(r.res_APDU, 1, r.res_APDU_size) ]

HistRec(op, tag, data, s, r) == HistRecPre(op, tag, data, s, r, NoPre)

HistLen == 4

Record(rec) ==
    /\ nops' = nops + 1
    /\ hist' = SubSeq(<< rec >> \o hist, 1, Min(Len(hist) + 1, HistLen))

\* A factory-fresh card after its first boot; f is what the behaviour draws from.
InitWith(f) ==
    /\ StartsAs(BootState(<< >>, 0, EmptyKeystore))
    /\ power = "on"
    /\ nops = 0
    /\ hist = << >>
    /\ focus = f

Running(max) == power = "on" /\ nops < max

\* ac.c: VERIFY of PW3 with the admin passphrase.
VerifyAdmin(max) ==
    /\ Running(max)
    /\ ~admin_authorized
    /\ Commit([St EXCEPT !.admin = TRUE,
                         !.keystring_md_pw3 = sha1(OPENPGP_CARD_INITIAL_PW3)])
    /\ Record(HistRec("verify", 0, << >>, St, St))
    /\ UNCHANGED << power, focus >>

\* ac.c: the admin authorisation is dropped.
ResetAdmin(max) ==
    /\ Running(max)
    /\ admin_authorized
    /\ Commit([St EXCEPT !.admin = FALSE])
    /\ Record(HistRec("reset", 0, << >>, St, St))
    /\ UNCHANGED << power, focus >>

NoEnv ==
    [ malloc_ok |-> TRUE, modulus_ok |-> TRUE, key_write_ok |-> TRUE,
      dek |-> Rep(0, DATA_ENCRYPTION_KEY_SIZE), random |-> << 0, 0, 0, 0 >> ]

\* What hist keeps before a PUT DATA: for a Key Import, the record of the
\* key role it names, if the role holds a key.
PutPre(tag, data) ==
    IF tag = GPG_DO_KEY_IMPORT /\ Len(data) >= 5
       /\ do_ptr[get_do_ptr_nr_for_kk(KeyKindOfByte(data[5]))] # NULL
    THEN [ NoPre EXCEPT !.pd =
             ReadPd(St, do_ptr[get_do_ptr_nr_for_kk(KeyKindOfByte(data[5]))]) ]
    ELSE NoPre

PutData(max, tag, data, env) ==
    /\ Running(max)
    /\ LET r == gpg_do_put_data(St, tag, data, env)
       IN  Commit(r)
           /\ Record(HistRecPre("put", tag, data, St, r, PutPre(tag, data)))
    /\ UNCHANGED << power, focus >>

GetData(max, tag) ==
    /\ Running(max)
    /\ LET r == gpg_do_get_data(St, tag)
       IN  Commit(r) /\ Record(HistRec("get", tag, << >>, St, r))
    /\ UNCHANGED << power, focus >>

\* PSO:CDS has produced a signature: the counter goes up by one.
IncrementDsc(max) ==
    /\ Running(max)
    /\ \E r \in { gpg_increment_digital_signature_counter(St) } :
           Commit(r) /\ Record(HistRec("incr", 0, << >>, St, r))
    /\ UNCHANGED << power, focus >>

\* Power is lost during the increment after 'writes' of its NV writes.
CrashIncrement(max, writes) ==
    /\ Running(max)
    /\ writes < Len(DscIncrementHalfwords(DscNext(digital_signature_counter)))
    /\ \E r \in { IncrementDscUpTo(St, writes) } :
           Commit(r) /\ Record(HistRec("crash", 0, << writes >>, St, r))
    /\ power' = "off"
    /\ UNCHANGED focus

\* Power on (again): the volatile state is rebuilt by gpg_data_scan.
Boot(max) ==
    /\ nops < max
    /\ \E r \in { BootState(pool, pool_page, keystore) } :
           Commit(r) /\ Record(HistRec("boot", 0, << >>, St, r))
    /\ power' = "on"
    /\ UNCHANGED focus

\* flash.c: the pool is compacted into the other page by gpg_data_copy.
Compact(max) ==
    /\ Running(max)
    /\ \E r \in { gpg_data_copy(St, data_pool(1 - pool_page)) } :
           Commit(r) /\ Record(HistRec("compact", 0, << >>, St, r))
    /\ UNCHANGED << power, focus >>

\* ac.c: a VERIFY with a wrong PIN 'which' is counted.
IncrementPwErr(max, which) ==
    /\ Running(max)
    /\ \E r \in { gpg_increment_pw_err_counter(St, which) } :
           Commit(r) /\ Record(HistRec("pwincr", which, << >>, St, r))
    /\ UNCHANGED << power, focus >>

\* ac.c: a VERIFY with the right PIN 'which' clears its error counter.
ResetPwErr(max, which) ==
    /\ Running(max)
    /\ \E r \in { gpg_reset_pw_err_counter(St, which) } :
           Commit(r) /\ Record(HistRec("pwreset", which, << >>, St, r))
    /\ UNCHANGED << power, focus >>

\* openpgp.c: gpg_do_chks_prvkey moves the DEK copy of the key role kk
\* from the unlock path who_old to the unlock path who_new.
ChksPrvkey(max, kk, who_old, old_ks, who_new, new_ks) ==
    /\ Running(max)
    /\ \E r \in { gpg_do_chks_prvkey(St, kk, who_old, old_ks, who_new, new_ks,
                                     TRUE) } :
       \E l \in { gpg_do_load_prvkey(St, kk, who_old, old_ks) } :
           /\ Commit(r)
           /\ Record(HistRecPre("chks", kk,
                         << who_old, who_new >> \o old_ks \o new_ks, St, r,
                         [ ok |-> l.ret = 1, key |-> KdData(l.kd),
                           pd |-> IF l.ret = 0 THEN << >>
                                  ELSE ReadPd(St,
                                         do_ptr[get_do_ptr_nr_for_kk(kk)]) ]))
    /\ UNCHANGED << power, focus >>

\* Power is lost in gpg_do_chks_prvkey after the new record is written and
\* before the old one is released.
CrashChks(max, kk, who_old, old_ks, who_new, new_ks) ==
    /\ Running(max)
    /\ do_ptr[get_do_ptr_nr_for_kk(kk)] # NULL
    /\ \E r \in { ChksWritten(St, get_do_ptr_nr_for_kk(kk),
                               do_ptr[get_do_ptr_nr_for_kk(kk)],
                               who_old, old_ks, who_new, new_ks) } :
           Commit(r)
           /\ Record(HistRec("chkscrash", kk, << who_old, who_new >>, St, r))
    /\ power' = "off"
    /\ UNCHANGED focus

\* The user PIN is changed from the passphrase old_pw to new_pw: the key
\* copies of the user are rewrapped, and the PW1 keystring is stored in
\* full when there is no key yet and as its length byte otherwise.
cmd_change_password_pw1(s, old_pw, new_pw) ==
    Bind(gpg_change_keystring(s, BY_USER, sha1(old_pw), BY_USER, sha1(new_pw),
                              TRUE),
    LAMBDA a :
        IF a.ret < 0 THEN a
        ELSE [gpg_reset_pw_err_counter(
                  gpg_do_write_simple(a, NR_DO_KEYSTRING_PW1,
                      SubSeq(<< Len(new_pw) >> \o sha1(new_pw), 1,
                             IF a.ret = 0 THEN KEYSTRING_SIZE_PW1 ELSE 1)),
                  PW_ERR_PW1)
                 EXCEPT !.ret = 1])

ChangePw1(max, old_pw, new_pw) ==
    /\ Running(max)
    /\ \E r \in { cmd_change_password_pw1(St, old_pw, new_pw) } :
           Commit(r) /\ Record(HistRec("chpw1", 0, new_pw, St, r))
    /\ UNCHANGED << power, focus >>

\* openpgp.c: GENERATE ASYMMETRIC KEY PAIR in its reading form answers with
\* the public key of the key role kk_byte names.
PublicKey(max, kk_byte) ==
    /\ Running(max)
    /\ \E r \in { gpg_do_public_key(St, kk_byte) } :
           Commit(r) /\ Record(HistRec("pubkey", kk_byte, << >>, St, r))
    /\ UNCHANGED << power, focus >>

(***************************************************************************)
(* Spec: PUT DATA and GET DATA on one tag, in every authentication state.  *)
(***************************************************************************)
TableTags == { gpg_do_table[i].tag : i \in 1..NUM_DO_ENTRIES }

\* A tag that is in no entry of gpg_do_table.
UnknownTag == 170

VarTags ==
    { gpg_do_table[i].tag : i \in { j \in 1..NUM_DO_ENTRIES :
                                       gpg_do_table[j].do_type = "DO_VAR" } }

\* "alice@example.test"
AliceLogin ==
    << 97, 108, 105, 99, 101, 64, 101, 120, 97, 109, 112, 108, 101, 46,
       116, 101, 115, 116 >>

\* The payloads PUT DATA is tried with on a variable data object: lengths
\* 0, 1, 18, 255 and 256.
VarPayloads ==
    { << >>, << 77 >>, AliceLogin, Bytes([i \in 1..255 |-> i]),
      Bytes([i \in 1..256 |-> 256 - i]) }

\* A 128-byte private key, and the Extended Header List that imports it
\* into the role named by the byte b, or deletes the key of that role.
KeyA == Bytes([i \in 1..KEY_CONTENT_LEN |-> (7 * i + 3) % 256])
ImportPayload(b, key) ==
    << 77, 130, 0, 150, b, 0 >> \o [i \in 1..20 |-> i] \o key
DeletePayload(b) == << 77, 130, 0, 2, b, 0 >>
RoleBytes == { 182, 184, 164 }

\* A new resetting code.
RcPass == << 114, 101, 115, 101, 116, 99, 111, 100, 101 >>

\* The payloads PUT DATA is tried with on 'tag'.
Payloads(tag) ==
    IF tag \in VarTags THEN VarPayloads
    ELSE IF tag = GPG_DO_PW_STATUS THEN { << 0 >>, << 1 >> }
    ELSE IF tag = GPG_DO_RESETTING_CODE THEN { RcPass }
    ELSE IF tag = GPG_DO_KEY_IMPORT
    THEN { ImportPayload(b, KeyA) : b \in RoleBytes }
           \cup { DeletePayload(b) : b \in RoleBytes }
    ELSE { << 77 >> }

Init == \E t \in TableTags \cup { UnknownTag } : InitWith(t)

Next ==
    \/ VerifyAdmin(MaxOps)
    \/ ResetAdmin(MaxOps)
    \/ \E d \in Payloads(focus) : PutData(MaxOps, focus, d, NoEnv)
    \/ GetData(MaxOps, focus)

Spec == Init /\ [][Next]_vars

\* The response APDU: body and status word.
Response == SubSeq(res_APDU, 1, res_APDU_size)

\* The one or two bytes of a tag, as copy_tag emits them.
TagBytes(tag) ==
    IF tag < 256 THEN << tag >> ELSE << tag \div 256, tag % 256 >>

\* The last two operations were an admin-authorised PUT DATA of at most 255
\* bytes on a variable data object and a GET DATA on the same tag.
PutThenGet ==
    /\ Len(hist) >= 2
    /\ hist[1].op = "get"
    /\ hist[2].op = "put"
    /\ hist[2].admin
    /\ hist[1].tag = hist[2].tag
    /\ hist[2].tag \in VarTags
    /\ Len(hist[2].data) <= 255

\* C1 as stated: an admin-authorised PUT DATA(tag, x), len(x) <= 255, on a
\* variable data object followed by GET DATA(tag) returns tag || len(x) || x
\* followed by 90 00.
C1_AsStated ==
    PutThenGet =>
        Response = TagBytes(hist[2].tag) \o << Len(hist[2].data) >>
                     \o hist[2].data \o << 144, 0 >>

\* C1, amended: an admin-authorised PUT DATA(tag, x), len(x) <= 255, on a
\* variable data object that is not answered with a failure, followed by
\* GET DATA(tag), returns x followed by 90 00, without tag and length.
C1_PutGetRoundTrip ==
    (PutThenGet /\ (hist[2].data = << >> \/ hist[2].resp = << 144, 0 >>)) =>
        Response = hist[2].data \o << 144, 0 >>

\* C1 witness: LOGIN_DATA was written with the 18-byte value and read back.
C1_Witness ==
    /\ PutThenGet
    /\ hist[2].tag = GPG_DO_LOGIN_DATA
    /\ hist[2].data = AliceLogin
    /\ hist[2].resp = << 144, 0 >>
    /\ Response = AliceLogin \o << 144, 0 >>

\* The catalog entry of a tag that has one.
EntryOf(tag) == gpg_do_table[get_do_entry(tag)]

\* The tags whose entry has read access condition NEVER.
ReadNeverTags == { tag \in TableTags : EntryOf(tag).ac_read = AC_NEVER }

\* The tags whose entry has write access condition ADMIN_AUTHORIZED.
AdminWriteTags ==
    { tag \in TableTags : EntryOf(tag).ac_write = AC_ADMIN_AUTHORIZED }

\* C9: GET DATA on an entry whose read access condition is NEVER answers
\* with security failure (69 82) and no body, whether or not the admin PIN
\* is verified, and calls no handler: not the NULL handler of the
\* Cardholder Certificate either.
C9_ReadNeverFails ==
    (Len(hist) >= 1 /\ hist[1].op = "get" /\ hist[1].tag \in ReadNeverTags) =>
        /\ Response = << 105, 130 >>
        /\ ~hist[1].ub

\* C9 witness: with the admin PIN verified, GET DATA on the Cardholder
\* Certificate was answered with security failure.
C9_Witness ==
    /\ Len(hist) >= 1
    /\ hist[1].op = "get"
    /\ hist[1].tag = GPG_DO_CH_CERTIFICATE
    /\ hist[1].admin
    /\ ReadNeverTags =
         { GPG_DO_RESETTING_CODE, GPG_DO_KEY_IMPORT, GPG_DO_CH_CERTIFICATE }
    /\ Response = << 105, 130 >>

\* C10 as stated: PUT DATA on an entry whose write access condition is
\* ADMIN_AUTHORIZED answers with security failure (69 82) when the admin PIN
\* is not verified and with success (90 00) otherwise, for every payload.
C10_AsStated ==
    (Len(hist) >= 1 /\ hist[1].op = "put" /\ hist[1].tag \in AdminWriteTags) =>
        Response = IF hist[1].admin THEN << 144, 0 >> ELSE << 105, 130 >>

\* C10, the empty payload alone: an admin-authorised PUT DATA with an empty
\* payload on a variable data object answers 90 00.
C10_EmptyPutSucceeds ==
    (/\ Len(hist) >= 1
     /\ hist[1].op = "put"
     /\ hist[1].tag \in VarTags
     /\ hist[1].admin
     /\ hist[1].data = << >>) =>
        Response = << 144, 0 >>

(***************************************************************************)
(* SpecDSC: the digital signature counter from a card whose pool was last  *)
(* compacted when the counter was 'focus'.                                 *)
(***************************************************************************)
\* Counter values around the carry from l10 to h14, around the carry into
\* the upper byte of h14, and around the wrap to 0.
DscStarts ==
    { 0, 1, 1022, 1023, 1024, 1025, 2047, 262143, 16777214, 16777215 }

InitDSC ==
    \E c0 \in DscStarts :
        /\ StartsAs(gpg_data_copy(
               [BootState(<< >>, 0, EmptyKeystore) EXCEPT !.dsc = c0],
               data_pool(0)))
        /\ power = "on"
        /\ nops = 0
        /\ hist = << >>
        /\ focus = c0

NextDSC ==
    \/ IncrementDsc(MaxDscOps)
    \/ \E w \in { 0, 1 } : CrashIncrement(MaxDscOps, w)
    \/ Boot(MaxDscOps)
    \/ Compact(MaxDscOps)
    \/ GetData(MaxDscOps, GPG_DO_DS_COUNT)

SpecDSC == InitDSC /\ [][NextDSC]_vars

\* The three big-endian bytes DS_COUNT reports for the counter value c.
DsCountBytes(c) == << (c \div 65536) % 256, (c \div 256) % 256, c % 256 >>

\* The k operations before the last one were all increments.
IncrementsBeforeLast(k) ==
    /\ Len(hist) >= k + 1
    /\ \A i \in 2..(k + 1) : hist[i].op = "incr"

\* C2: after n increments from the counter value c0, DS_COUNT reports
\* (c0 + n) mod 2^24 in three big-endian bytes, the wrap from 0xFFFFFF to 0
\* included.
C2_IncrementLaw ==
    \A n \in 1..(HistLen - 1) :
        (/\ Len(hist) >= 1
         /\ hist[1].op = "get"
         /\ hist[1].tag = GPG_DO_DS_COUNT
         /\ IncrementsBeforeLast(n)) =>
            Response = DsCountBytes((hist[n + 1].dsc + n) % 16777216)
                         \o << 144, 0 >>

\* C2 witness: three increments from 0xFFFFFE were read back as 00 00 01.
C2_Witness ==
    /\ Len(hist) = 4
    /\ hist[1].op = "get"
    /\ IncrementsBeforeLast(3)
    /\ hist[4].dsc = 16777214
    /\ Response = << 0, 0, 1, 144, 0 >>

\* The last two operations were an increment that lost power between its
\* two roll-over writes (after the h14 cell, before the l10 = 0 cell), and
\* the boot that followed.
CrashedInRollover ==
    /\ Len(hist) >= 2
    /\ hist[1].op = "boot"
    /\ hist[2].op = "crash"
    /\ hist[2].data = << 1 >>

\* C3 as stated: after a power loss between the two roll-over writes the
\* scan never recovers a counter smaller than the value before the increment.
C3_AsStated == CrashedInRollover => digital_signature_counter >= hist[2].dsc

\* C3, amended: after a power loss between the two roll-over writes the scan
\* recovers (c + 1) mod 2^24 for the value c before the increment: one more
\* than c (from 0x0003FF, 0x000400), and 0 when c is 0xFFFFFF.
C3_RolloverCrash ==
    CrashedInRollover => digital_signature_counter = DscNext(hist[2].dsc)

\* C3 witness: DS_COUNT read 00 03 FF, the next increment lost power after
\* its h14 write, and after the boot DS_COUNT read 00 04 00.
C3_Witness ==
    /\ Len(hist) = 4
    /\ hist[4].op = "get" /\ hist[4].resp = << 0, 3, 255, 144, 0 >>
    /\ hist[3].op = "crash" /\ hist[3].data = << 1 >> /\ hist[3].dsc = 1023
    /\ hist[2].op = "boot"
    /\ hist[1].op = "get" /\ Response = << 0, 4, 0, 144, 0 >>

\* The indexed state: what the volatile indices and counters stand for.
IndexedState(s) ==
    [ dsc          |-> s.dsc,
      pw1_lifetime |-> gpg_get_pw1_lifetime(s),
      pw_err       |-> [w \in PwErrs |-> gpg_get_pw_err_counter(s, w)],
      dos          |-> [nr \in DoNrs |->
                           IF s.do_ptr[nr] = NULL THEN NULL_DATA
                           ELSE DoBytes(s, s.do_ptr[nr])],
      num_prv_keys |-> s.num_prv_keys ]

\* gpg_data_copy into the other page followed by gpg_data_scan of that page.
CompactThenScan(s) ==
    gpg_data_scan(gpg_data_copy(s, data_pool(1 - s.page)),
                  data_pool(1 - s.page))

\* C4 as stated: in every reachable state, gpg_data_copy into a fresh region
\* followed by gpg_data_scan of that region yields the same signature
\* counter, PW1-lifetime flag, PIN-error counters, live DOs with their
\* payloads and num_prv_keys as before.
C4_AsStated ==
    power = "on" => IndexedState(CompactThenScan(St)) = IndexedState(St)

(***************************************************************************)
(* SpecPW: the PIN-error counters of a fresh card.                         *)
(***************************************************************************)
InitPW == InitWith(GPG_DO_PW_STATUS)

NextPW ==
    \/ \E w \in PwErrs : IncrementPwErr(MaxPwOps, w)
    \/ \E w \in PwErrs : ResetPwErr(MaxPwOps, w)
    \/ Compact(MaxPwOps)
    \/ GetData(MaxPwOps, focus)
    \/ VerifyAdmin(MaxPwOps)
    \/ \E d \in Payloads(focus) : PutData(MaxPwOps, focus, d, NoEnv)

SpecPW == InitPW /\ [][NextPW]_vars

\* The last k operations were increments of the error counter of PIN w, the
\* first of them from a cleared counter.
IncrementedFromClear(w, k) ==
    /\ Len(hist) >= k
    /\ \A i \in 1..k : hist[i].op = "pwincr" /\ hist[i].tag = w
    /\ hist[k].pw_err[w] = 0

\* C5: for each PIN w, k <= 3 increments of its error counter from a cleared
\* counter leave the value min(k, 3), and the PIN locked iff k >= 3; a reset
\* leaves the value 0 and the PIN unlocked; the counters of the other two
\* PINs keep their values through both.
C5_PwErrCounters ==
    \A w \in PwErrs :
        /\ \A k \in 1..PASSWORD_ERRORS_MAX :
               IncrementedFromClear(w, k) =>
                   /\ gpg_get_pw_err_counter(St, w) = Min(k, PASSWORD_ERRORS_MAX)
                   /\ gpg_passwd_locked(St, w) = 1 <=> k >= PASSWORD_ERRORS_MAX
                   /\ \A v \in PwErrs \ { w } :
                          gpg_get_pw_err_counter(St, v) = hist[k].pw_err[v]
        /\ (Len(hist) >= 1 /\ hist[1].op = "pwreset" /\ hist[1].tag = w) =>
               /\ gpg_get_pw_err_counter(St, w) = 0
               /\ gpg_passwd_locked(St, w) = 0
               /\ \A v \in PwErrs \ { w } :
                      gpg_get_pw_err_counter(St, v) = hist[1].pw_err[v]

\* C5 witness: RC had one error, then PW1 was given three errors from a
\* cleared counter and is locked, and RC still has one.
C5_Witness ==
    /\ Len(hist) = 4
    /\ hist[4].op = "pwincr" /\ hist[4].tag = PW_ERR_RC
    /\ IncrementedFromClear(PW_ERR_PW1, 3)
    /\ gpg_get_pw_err_counter(St, PW_ERR_PW1) = 3
    /\ gpg_passwd_locked(St, PW_ERR_PW1) = 1
    /\ gpg_get_pw_err_counter(St, PW_ERR_RC) = 1

(***************************************************************************)
(* SpecKey: key import, key deletion, user PIN change and rewrap of the    *)
(* DEK copies, on a fresh card.  focus is the byte of a key role.  The     *)
(* host verifies PW3 first, as key management needs it; what PUT DATA      *)
(* answers without it is the matter of Spec.                               *)
(***************************************************************************)
\* The private key imported into the role named by the byte b.
KeyFor(b) == Bytes([i \in 1..KEY_CONTENT_LEN |-> (7 * i + b) % 256])

\* What the collaborators answer during a key import.
KeyEnv ==
    [ malloc_ok |-> TRUE, modulus_ok |-> TRUE, key_write_ok |-> TRUE,
      dek |-> Bytes([i \in 1..DATA_ENCRYPTION_KEY_SIZE |-> (11 * i + 5) % 256]),
      random |-> << 1, 2, 3, 4 >> ]

\* The random source answers another DEK at each import.
KeyEnvAt(n) ==
    [ KeyEnv EXCEPT !.dek =
        Bytes([i \in 1..DATA_ENCRYPTION_KEY_SIZE |-> (11 * i + 5 + n) % 256]) ]

\* "135790", a user PIN other than the initial one.
UserPin == << 49, 51, 53, 55, 57, 48 >>

\* The keystrings of the admin, of the resetting code and of the user PIN.
KsAdmin == sha1(OPENPGP_CARD_INITIAL_PW3)
KsReset == sha1(RcPass)
KsUser == sha1(UserPin)

\* The rewraps openpgp.c asks for: admin sets the resetting code, the
\* resetting code or the admin sets a new user PIN.
Moves ==
    { [ from |-> BY_ADMIN, to |-> BY_RESETCODE, new |-> KsReset ],
      [ from |-> BY_RESETCODE, to |-> BY_USER, new |-> KsUser ],
      [ from |-> BY_ADMIN, to |-> BY_USER, new |-> KsUser ] }

InitKey == \E b \in RoleBytes : InitWith(b)

NextKey ==
    \/ VerifyAdmin(MaxKeyOps)
    \/ /\ admin_authorized
       /\ \E b \in RoleBytes :
              PutData(MaxKeyOps, GPG_DO_KEY_IMPORT,
                      ImportPayload(b, KeyFor(b)), KeyEnvAt(nops))
    \/ /\ admin_authorized
       /\ PutData(MaxKeyOps, GPG_DO_KEY_IMPORT, DeletePayload(focus), KeyEnv)
    \/ /\ admin_authorized
       /\ PutData(MaxKeyOps, GPG_DO_RESETTING_CODE, RcPass, KeyEnv)
    \/ /\ admin_authorized
       /\ \E old_pw \in { OPENPGP_CARD_INITIAL_PW1, UserPin } :
              ChangePw1(MaxKeyOps, old_pw, UserPin)
    \/ /\ admin_authorized
       /\ \E m \in Moves : \E old_ks \in { KsAdmin, KsReset } :
              ChksPrvkey(MaxKeyOps, KeyKindOfByte(focus), m.from, old_ks,
                         m.to, m.new)
    \/ PublicKey(MaxKeyOps, focus)
    \/ /\ admin_authorized
       /\ \E m \in Moves :
              CrashChks(MaxKeyOps, KeyKindOfByte(focus), m.from, KsAdmin,
                        m.to, m.new)

SpecKey == InitKey /\ [][NextKey]_vars

\* The last operation was a key import that was answered with 90 00.
Imported ==
    /\ Len(hist) >= 1
    /\ hist[1].op = "put"
    /\ hist[1].tag = GPG_DO_KEY_IMPORT
    /\ Len(hist[1].data) > 22
    /\ hist[1].resp = << 144, 0 >>

ImportedKind == KeyKindOfByte(hist[1].data[5])
ImportedKey == SubSeq(hist[1].data, 27, 26 + KEY_CONTENT_LEN)

\* C6: after a successful gpg_do_write_prvkey(role, k, admin_ks),
\* gpg_do_load_prvkey of that role through the admin DEK copy with the same
\* admin_ks returns 1, kd.data is k and kd.magic is GNUK_MAGIC.
C6_SealUnseal ==
    Imported =>
        \A l \in { gpg_do_load_prvkey(St, ImportedKind, BY_ADMIN,
                                      keystring_md_pw3) } :
            /\ l.ret = 1
            /\ KdData(l.kd) = ImportedKey
            /\ KdMagic(l.kd) = GNUK_MAGIC

\* C6 witness: a key was imported over the key the role already held, and
\* the admin keystring opens it.
C6_Witness ==
    /\ Imported
    /\ hist[1].prv[ImportedKind]
    /\ gpg_do_load_prvkey(St, ImportedKind, BY_ADMIN, KsAdmin).ret = 1
    /\ KdData(gpg_do_load_prvkey(St, ImportedKind, BY_ADMIN, KsAdmin).kd)
         = KeyFor(focus)

\* The last operation was a rewrap of the key of a role from one unlock
\* path to another, with the keystring that opened the key through the old
\* path.
Rewrapped ==
    /\ Len(hist) >= 1
    /\ hist[1].op = "chks"
    /\ hist[1].pre.ok
    /\ hist[1].data[1] # hist[1].data[2]

RewrapOld == hist[1].data[1]
RewrapNew == hist[1].data[2]
RewrapOldKs == SubSeq(hist[1].data, 3, 2 + KEYSTRING_MD_SIZE)
RewrapNewKs ==
    SubSeq(hist[1].data, 3 + KEYSTRING_MD_SIZE, 2 + 2 * KEYSTRING_MD_SIZE)
RewrapThird == CHOOSE w \in { BY_USER, BY_RESETCODE, BY_ADMIN } :
                   w # RewrapOld /\ w # RewrapNew

\* The record of the key role kk in the data pool.
PdOf(kk) == ReadPd(St, do_ptr[get_do_ptr_nr_for_kk(kk)])

\* C7: after gpg_do_chks_prvkey(role, who_old, old_ks, who_new, new_ks) with
\* who_old # who_new and the old_ks that opens the key k, unseal with new_ks
\* at who_new returns 1 and recovers k, unseal with old_ks at who_old still
\* returns 1, and the third DEK copy is as it was; after a rewrap from admin
\* to reset code, unseal through the user copy with the admin keystring
\* returns -1.
C7_RewrapLaw ==
    Rewrapped =>
        /\ hist[1].ret = 1
        /\ \A l \in { gpg_do_load_prvkey(St, hist[1].tag, RewrapNew,
                                         RewrapNewKs) } :
               l.ret = 1 /\ KdData(l.kd) = hist[1].pre.key
        /\ gpg_do_load_prvkey(St, hist[1].tag, RewrapOld, RewrapOldKs).ret = 1
        /\ PdDek(PdOf(hist[1].tag), RewrapThird)
             = PdDek(hist[1].pre.pd, RewrapThird)
        /\ (RewrapOld = BY_ADMIN /\ RewrapNew = BY_RESETCODE) =>
               gpg_do_load_prvkey(St, hist[1].tag, BY_USER, RewrapOldKs).ret
                 = -1

\* C7 witness: the key of the focus role was imported, then rewrapped from
\* the admin to the resetting code, and the resetting code opens it.
C7_Witness ==
    /\ Len(hist) >= 2
    /\ Rewrapped
    /\ RewrapOld = BY_ADMIN /\ RewrapNew = BY_RESETCODE
    /\ hist[2].op = "put" /\ hist[2].resp = << 144, 0 >>
    /\ hist[1].pre.key = KeyFor(focus)
    /\ KdData(gpg_do_load_prvkey(St, hist[1].tag, BY_RESETCODE, KsReset).kd)
         = KeyFor(focus)

\* The user DEK copy of the imported role opens with the keystring of the
\* initial PW1.
UnsealInitial ==
    gpg_do_load_prvkey(St, ImportedKind, BY_USER,
                       sha1(OPENPGP_CARD_INITIAL_PW1)).ret = 1

\* C8 as stated: after a successful gpg_do_write_prvkey, unseal through the
\* user DEK copy with the keystring of the initial PW1 succeeds iff no user
\* PIN had been set before the import, for an empty role and for a
\* replacement alike.
C8_AsStated == Imported => (UnsealInitial <=> ~hist[1].pw1_set)

\* C8, amended: after a successful import into an empty role, unseal through
\* the user DEK copy with the keystring of the initial PW1 succeeds iff no
\* PW1 keystring was stored at the import; after a successful replacement
\* of the key of a role it always succeeds.
C8_InitialPw1Unseal ==
    Imported =>
        (UnsealInitial <=> (hist[1].prv[ImportedKind] \/ ~hist[1].pw1_set))

\* C8 witness: the user PIN was changed while a key was present, so that the
\* stored PW1 keystring is its length byte only; a key was then imported
\* into an empty role and the initial PW1 does not open it.
C8_Witness ==
    /\ Len(hist) >= 2
    /\ Imported
    /\ ~hist[1].prv[ImportedKind]
    /\ hist[1].pw1_set
    /\ hist[2].op = "chpw1" /\ hist[2].ret = 1
    /\ \E kk \in DOMAIN hist[2].prv : hist[2].prv[kk]
    /\ ~UnsealInitial

(***************************************************************************)
(* Deleting a variable data object.                                        *)
(***************************************************************************)
\* The last three operations were an admin-authorised PUT DATA(tag, x) with
\* 1..255 bytes that succeeded, an admin-authorised PUT DATA(tag, empty)
\* and a GET DATA(tag), on a variable data object.
PutDeleteGet ==
    /\ Len(hist) >= 3
    /\ hist[1].op = "get"
    /\ hist[2].op = "put" /\ hist[2].admin /\ hist[2].data = << >>
    /\ hist[3].op = "put" /\ hist[3].admin /\ hist[3].data # << >>
    /\ hist[3].resp = << 144, 0 >>
    /\ hist[1].tag = hist[2].tag
    /\ hist[2].tag = hist[3].tag
    /\ hist[3].tag \in VarTags

\* C11 as stated: PUT DATA(tag, x), PUT DATA(tag, empty), GET DATA(tag) on a
\* variable data object answers 90 00 with no body, and a gpg_data_scan of
\* the pool as it is then finds no cell of the object and stores through no
\* pointer outside do_ptr: x is not resurrected.
C11_AsStated ==
    PutDeleteGet =>
        /\ Response = << 144, 0 >>
        /\ BootState(pool, pool_page, keystore)
              .do_ptr[do_tag_to_nr(hist[1].tag)] = NULL
        /\ ~BootState(pool, pool_page, keystore).ub

\* C11, the response alone: PUT DATA(tag, x), PUT DATA(tag, empty),
\* GET DATA(tag) on a variable data object answers 90 00 with no body.
C11_GetAfterDelete == PutDeleteGet => Response = << 144, 0 >>

(***************************************************************************)
(* PIN-error counters beyond the lock.                                     *)
(***************************************************************************)
\* C12 as stated: after any number of gpg_increment_pw_err_counter calls no
\* PIN-error counter exceeds PASSWORD_ERRORS_MAX, and each retry-counter
\* byte GET DATA reports in the PW status bytes is in 0..3.
C12_AsStated ==
    /\ \A w \in PwErrs : gpg_get_pw_err_counter(St, w) <= PASSWORD_ERRORS_MAX
    /\ (Len(hist) >= 1 /\ hist[1].op = "get" /\ hist[1].tag = GPG_DO_PW_STATUS)
         => \A i \in 5..7 : Response[i] \in 0..PASSWORD_ERRORS_MAX

(***************************************************************************)
(* The index of a DEK copy.                                                *)
(***************************************************************************)
\* What gpg_do_load_prvkey answers for the key role kk at index who.
LoadRet(kk, who, ks) == gpg_do_load_prvkey(St, kk, who, ks).ret

\* C13 as stated: gpg_do_load_prvkey selects the DEK copy by who with
\* 0 = user (PW1), 1 = reset code, 2 = admin (PW3): after an import the admin
\* keystring opens the key at index 2, and gpg_do_chks_prvkey uses the same
\* indices, so that the copy it wrote at who_new opens at who_new.
C13_AsStated ==
    /\ Imported => LoadRet(ImportedKind, 2, keystring_md_pw3) = 1
    /\ Rewrapped => LoadRet(hist[1].tag, RewrapNew, RewrapNewKs) = 1

\* C13, amended: the indices are 1 = user (PW1), 2 = reset code, 3 = admin
\* (PW3), and index 0 is the crm field.  After an import the admin keystring
\* opens the key at index 3 and at no other index of 0..3, and the keystring
\* of the initial PW1, when it wraps the user copy, opens it at index 1 and
\* at no other; gpg_do_chks_prvkey uses the same indices: after a rewrap to
\* who_new the new keystring opens the key at who_new and at no other index.
C13_RoleIndex ==
    /\ Imported =>
         /\ \A w \in 0..3 :
                LoadRet(ImportedKind, w, keystring_md_pw3)
                  = (IF w = 3 THEN 1 ELSE -1)
         /\ (hist[1].prv[ImportedKind] \/ ~hist[1].pw1_set) =>
                \A w \in 0..3 :
                    LoadRet(ImportedKind, w, sha1(OPENPGP_CARD_INITIAL_PW1))
                      = (IF w = 1 THEN 1 ELSE -1)
    /\ Rewrapped =>
         \A w \in 0..3 :
             LoadRet(hist[1].tag, w, RewrapNewKs)
               = (IF w = RewrapNew THEN 1 ELSE -1)

\* C13 witness: a key was imported and its DEK copy rewrapped from index 3
\* under the admin keystring to index 2 under the resetting code; the
\* resetting code opens the key at index 2 and not at index 1.
C13_Witness ==
    /\ Len(hist) >= 2
    /\ Rewrapped
    /\ hist[2].op = "put" /\ hist[2].resp = << 144, 0 >>
    /\ RewrapOld = 3 /\ RewrapNew = 2
    /\ RewrapOldKs = KsAdmin /\ RewrapNewKs = KsReset
    /\ LoadRet(hist[1].tag, 2, KsReset) = 1
    /\ LoadRet(hist[1].tag, 1, KsReset) = -1
    /\ LoadRet(hist[1].tag, 3, KsAdmin) = 1

(***************************************************************************)
(* Compound data objects.                                                  *)
(***************************************************************************)
\* The tags whose entry is a compound object.
CompoundTags ==
    { tag \in TableTags : EntryOf(tag).do_type = "DO_CMP_READ" }

\* The last operation was a GET DATA on a compound object.
GotCompound ==
    Len(hist) >= 1 /\ hist[1].op = "get" /\ hist[1].tag \in CompoundTags

\* C14 as stated: GET DATA on a compound object answers tag || 81 || LL ||
\* children || 90 00, where LL is the number of bytes of the children: what
\* lies between the LL byte and the status word.
C14_AsStated ==
    GotCompound =>
        \A k \in { Len(TagBytes(hist[1].tag)) } :
            /\ Len(Response) >= k + 4
            /\ SubSeq(Response, 1, k) = TagBytes(hist[1].tag)
            /\ Response[k + 1] = 129
            /\ Response[k + 2] = Len(Response) - (k + 2) - 2
            /\ SubSeq(Response, Len(Response) - 1, Len(Response))
                 = << 144, 0 >>

\* C14, what GET DATA answers: tag || 81 || LL || children || 90 00 where LL
\* is one more than the number of bytes of the children.
C14_LengthCountsItself ==
    GotCompound =>
        \A k \in { Len(TagBytes(hist[1].tag)) } :
            /\ Len(Response) >= k + 4
            /\ SubSeq(Response, 1, k) = TagBytes(hist[1].tag)
            /\ Response[k + 1] = 129
            /\ Response[k + 2] = (Len(Response) - (k + 2) - 2 + 1) % 256
            /\ SubSeq(Response, Len(Response) - 1, Len(Response))
                 = << 144, 0 >>

(***************************************************************************)
(* The public key of a role.                                               *)
(***************************************************************************)
\* The last operation was gpg_do_public_key on the key role kk_byte names.
GotPublicKey == Len(hist) >= 1 /\ hist[1].op = "pubkey"

\* The 256 modulus bytes that follow the encrypted key in the key slot of
\* the role the last operation named.
SlotModulus ==
    KeyMem(St, PdKeyAddr(ReadPd(St, do_ptr[PublicKeyNr(hist[1].tag)])),
           KEY_CONTENT_LEN, 256)

\* C15 as stated: for a role that holds a key gpg_do_public_key answers
\* 7F 49 82 01 09, 81 82 01 00, the 256 modulus bytes of the key slot of
\* the role, 82 03 01 00 01, 90 00; for a role with no key it answers record
\* not found (6A 88) with no body.
C15_AsStated ==
    GotPublicKey =>
        Response = IF hist[1].prv[KeyKindOfByte(hist[1].tag)]
                   THEN << 127, 73, 130, 1, 9, 129, 130, 1, 0 >>
                          \o SlotModulus \o << 130, 3, 1, 0, 1, 144, 0 >>
                   ELSE << 106, 136 >>

\* C15, what gpg_do_public_key answers: the frame is as stated, and of the
\* 256-byte modulus field the first KEY_CONTENT_LEN bytes are the modulus
\* bytes of the key slot.
C15_FirstHalf ==
    GotPublicKey =>
        IF hist[1].prv[KeyKindOfByte(hist[1].tag)]
        THEN /\ Len(Response) = 9 + 256 + 7
             /\ SubSeq(Response, 1, 9 + KEY_CONTENT_LEN)
                  = << 127, 73, 130, 1, 9, 129, 130, 1, 0 >>
                      \o SubSeq(SlotModulus, 1, KEY_CONTENT_LEN)
             /\ SubSeq(Response, 9 + 256 + 1, 9 + 256 + 7)
                  = << 130, 3, 1, 0, 1, 144, 0 >>
        ELSE Response = << 106, 136 >>

(***************************************************************************)
(* The PW status bytes.                                                    *)
(***************************************************************************)
\* The last operation was a GET DATA on the PW status bytes.
GotPwStatus ==
    Len(hist) >= 1 /\ hist[1].op = "get" /\ hist[1].tag = GPG_DO_PW_STATUS

\* The retry counter of PIN w as a byte.
RetryByte(w) == (PASSWORD_ERRORS_MAX - gpg_get_pw_err_counter(St, w)) % 256

LiveCells(nr) ==
    IF hist = << >> THEN {} ELSE { p \in hist[1].cells : Mem(St, p) = nr }

\* Power was lost in gpg_do_chks_prvkey between its two NV writes.
InsideChks == Len(hist) >= 1 /\ hist[1].op = "chkscrash"

LiveLifetimeCells ==
    IF hist = << >> THEN {}
    ELSE { p \in hist[1].cells : Mem(St, p) = NR_BOOL_PW1_LIFETIME }

\* C18 as stated: after any sequence of PW status writes the pool holds
\* exactly one live NR_BOOL_PW1_LIFETIME cell when the PW1-lifetime option is
\* on and none when it is off.
C18_AsStated ==
    Cardinality(LiveLifetimeCells) = gpg_get_pw1_lifetime(St)

\* C18, the pointer alone: when the option is on, pw1_lifetime_p points to a
\* live NR_BOOL_PW1_LIFETIME cell.
C18_PointerIsLive ==
    pw1_lifetime_p # NULL => pw1_lifetime_p \in LiveLifetimeCells

(***************************************************************************)
(* The cells of the signature counter.                                     *)
(***************************************************************************)
\* The cells of the pool whose first byte is in lo..hi; in the behaviours
\* of SpecDSC every cell of the pool is one halfword.
HalfwordCells(lo, hi) ==
    { i \in 1..Len(pool) : i % 2 = 1 /\ pool[i] >= lo /\ pool[i] <= hi }

\* The live DSC-upper (h14) and DSC-lower (l10) cells.
DscUpperCells == HalfwordCells(128, 191)
DscLowerCells == HalfwordCells(192, 195)

\* The last k operations were increments of the signature counter.
LastIncrements(k) ==
    Len(hist) >= k /\ \A i \in 1..k : hist[i].op = "incr"

\* C19 as stated: after any sequence of increments the pool holds at most
\* one live DSC-upper cell and at most one live DSC-lower cell.
C19_AsStated ==
    LastIncrements(1) =>
        Cardinality(DscUpperCells) <= 1 /\ Cardinality(DscLowerCells) <= 1

\* C19, amended: an increment releases nothing.  After k increments in a row
\* the pool holds at least k live DSC-lower cells, no cell of the pool is
\* released, and a scan of the pool, which takes the last DSC-upper and the
\* last DSC-lower cell, finds the counter.
C19_AppendOnly ==
    \A k \in 1..HistLen :
        LastIncrements(k) =>
            /\ Cardinality(DscLowerCells) >= k
            /\ HalfwordCells(0, 0) = {}
            /\ Cardinality(DscUpperCells) + Cardinality(DscLowerCells)
                 = Len(pool) \div 2
            /\ BootState(pool, pool_page, keystore).dsc
                 = digital_signature_counter

\* C19 witness: two increments from 2047, the first with a carry into h14:
\* the pool holds two live DSC-upper cells and three live DSC-lower cells.
C19_Witness ==
    /\ LastIncrements(2)
    /\ hist[2].dsc = 2047
    /\ digital_signature_counter = 2049
    /\ Cardinality(DscUpperCells) = 2
    /\ Cardinality(DscLowerCells) = 3

(***************************************************************************)
(* The count of private keys.                                              *)
(***************************************************************************)
\* The last operation was a Key Import with a deletion template, answered
\* with 90 00.
KeyDeleted ==
    /\ Len(hist) >= 1
    /\ hist[1].op = "put"
    /\ hist[1].tag = GPG_DO_KEY_IMPORT
    /\ Len(hist[1].data) <= 22
    /\ hist[1].resp = << 144, 0 >>

\* C20 as stated: after imports and deletions, the deletion of a role that
\* holds no key included, num_prv_keys is in 0..3 and is the number of roles
\* whose private-key DO is live.
C20_AsStated ==
    /\ num_prv_keys \in 0..NUM_ALL_PRV_KEYS
    /\ num_prv_keys = NumPrvKeys(do_ptr)

\* What holds instead: the count is never above the number of live
\* private-key DOs, and a deletion takes one off it whether or not the role
\* held a key.
C20_CountNeverAbove ==
    /\ num_prv_keys <= NumPrvKeys(do_ptr)
    /\ (KeyDeleted /\ ~hist[1].prv[KeyKindOfByte(hist[1].data[5])]
         /\ (Len(hist) = 1 \/ hist[2].op = "verify"))
            => num_prv_keys = NumPrvKeys(do_ptr) - 1

(***************************************************************************)
(* SpecRC: the resetting code, key import, re-import and deletion on a     *)
(* fresh card, after the host has verified PW3.  focus is the byte of the  *)
(* key role that deletions name, here the authentication role.             *)
(***************************************************************************)
MaxRcOps == 6

\* The collaborators of KeyEnv with a malloc that fails.
NoMallocEnv == [KeyEnv EXCEPT !.malloc_ok = FALSE]

\* Deletions name the authentication role (0xA4).
InitRC == InitWith(164)

NextRC ==
    \/ ~admin_authorized /\ VerifyAdmin(MaxRcOps)
    \/ /\ admin_authorized
       /\ \E env \in { KeyEnv, NoMallocEnv } :
              PutData(MaxRcOps, GPG_DO_RESETTING_CODE, RcPass, env)
    \/ /\ admin_authorized
       /\ \E b \in RoleBytes :
              PutData(MaxRcOps, GPG_DO_KEY_IMPORT,
                      ImportPayload(b, KeyFor(b)), KeyEnv)
    \/ /\ admin_authorized
       /\ PutData(MaxRcOps, GPG_DO_KEY_IMPORT, DeletePayload(focus), KeyEnv)
    \/ admin_authorized /\ IncrementPwErr(MaxRcOps, PW_ERR_RC)

SpecRC == InitRC /\ [][NextRC]_vars

\* The payload length of the live cell of the DO nr.
DoLen(nr) == Mem(St, do_ptr[nr])

\* Every keystring DO that is present holds its length byte only.
KeystringsTruncated ==
    \A nr \in { NR_DO_KEYSTRING_PW1, NR_DO_KEYSTRING_RC } :
        do_ptr[nr] # NULL => DoLen(nr) = 1

\* C21 as stated: whenever a successful key import leaves all three roles
\* with a private key, every PW1 and RC keystring DO present has a one-byte
\* payload, whatever the order of imports, deletions and re-imports.
C21_AsStated ==
    (Imported /\ NumPrvKeys(do_ptr) = NUM_ALL_PRV_KEYS) => KeystringsTruncated

\* What holds instead: the keystrings are cut when the import into a role
\* without a key brings num_prv_keys to three.
C21_TruncatedAtCountThree ==
    (/\ Imported
     /\ ~hist[1].prv[KeyKindOfByte(hist[1].data[5])]
     /\ num_prv_keys = NUM_ALL_PRV_KEYS) => KeystringsTruncated

(***************************************************************************)
(* The resetting code.                                                     *)
(***************************************************************************)
\* The last operation was a PUT DATA of the resetting code by the admin.
RcPut ==
    /\ Len(hist) >= 1
    /\ hist[1].op = "put"
    /\ hist[1].tag = GPG_DO_RESETTING_CODE
    /\ hist[1].admin

\* Some key role held a private key before the last operation.
HeldBefore == \E kk \in 0..(NUM_ALL_PRV_KEYS - 1) : hist[1].prv[kk]

\* C22: a PUT DATA of the resetting code that gpg_change_keystring fails
\* (a negative answer) reports an error and leaves the RC keystring DO and
\* the RC error counter as they were; with no private key (answer 0) the RC
\* DO holds the 21 bytes of length byte and SHA-1; with a private key
\* (answer > 0) it holds the length byte only; in both the RC error counter
\* is 0 afterwards.
C22_ResettingCode ==
    RcPut =>
        IF hist[1].resp # << 144, 0 >>
        THEN /\ HeldBefore
             /\ DoCell(St, NR_DO_KEYSTRING_RC) = hist[1].rc
             /\ gpg_get_pw_err_counter(St, PW_ERR_RC) = hist[1].pw_err[PW_ERR_RC]
        ELSE /\ DoCell(St, NR_DO_KEYSTRING_RC).data
                  = IF HeldBefore THEN << Len(hist[1].data) >>
                    ELSE << Len(hist[1].data) >> \o sha1(hist[1].data)
             /\ Len(sha1(hist[1].data)) + 1 = KEYSTRING_SIZE_RC
             /\ gpg_get_pw_err_counter(St, PW_ERR_RC) = 0

\* C22 witness: with a key held and one RC error counted, a PUT of the
\* resetting code failed and left the full keystring stored before any key;
\* the PUT before it stored that keystring.
C22_Witness ==
    /\ RcPut /\ HeldBefore
    /\ hist[1].resp # << 144, 0 >>
    /\ hist[1].pw_err[PW_ERR_RC] = 1
    /\ Len(DoCell(St, NR_DO_KEYSTRING_RC).data) = KEYSTRING_SIZE_RC

\* C22 witness of the answers 0 and > 0: the resetting code was set with a
\* key held, after an RC error, and only its length byte is stored.
C22_WitnessDone ==
    /\ RcPut /\ HeldBefore
    /\ hist[1].resp = << 144, 0 >>
    /\ hist[1].pw_err[PW_ERR_RC] = 1
    /\ Len(hist[1].rc.data) = KEYSTRING_SIZE_RC

(***************************************************************************)
(* The NV writes of one increment of the signature counter.                *)
(***************************************************************************)
\* The cells the last operation appended, lowest address (first written)
\* first.
AppendedCells ==
    hist[1].cells \ (IF Len(hist) >= 2 THEN hist[2].cells ELSE {})

\* The halfword cell at p: its kind and the bits it carries.
IsUpperCell(p, h14) ==
    Mem(St, p) >= 128 /\ Mem(St, p) < 192
      /\ (Mem(St, p) - 128) * 256 + Mem(St, p + 1) = h14
IsLowerCell(p, l10) ==
    Mem(St, p) >= 192 /\ Mem(St, p) < 196
      /\ (Mem(St, p) - 192) * 256 + Mem(St, p + 1) = l10

\* C23: an increment to a value with nonzero low 10 bits appends exactly one
\* cell, the new l10; an increment whose low 10 bits wrap to zero appends the
\* new h14 cell and after it the l10 = 0 cell; the volatile counter is
\* assigned after the NV writes: when power is lost before the last of them
\* it still has its old value.
C23_WriteOrder ==
    /\ (Len(hist) >= 1 /\ hist[1].op = "incr") =>
           LET dsc == DscNext(hist[1].dsc)
           IN  /\ digital_signature_counter = dsc
               /\ IF dsc % 1024 # 0
                  THEN \E p \in AppendedCells :
                           /\ AppendedCells = { p }
                           /\ IsLowerCell(p, dsc % 1024)
                  ELSE \E p \in AppendedCells :
                           /\ AppendedCells = { p, p + 2 }
                           /\ IsUpperCell(p, dsc \div 1024)
                           /\ IsLowerCell(p + 2, 0)
    /\ (Len(hist) >= 1 /\ hist[1].op = "crash") =>
           /\ digital_signature_counter = hist[1].dsc
           /\ IF hist[1].data = << 0 >> THEN AppendedCells = {}
              ELSE \E p \in AppendedCells :
                       /\ AppendedCells = { p }
                       /\ IsUpperCell(p, DscNext(hist[1].dsc) \div 1024)

\* C23 witness: the increment from 1023 to 1024 appended the h14 = 1 cell
\* and then the l10 = 0 cell, after an increment that appended one l10 cell.
C23_Witness ==
    /\ Len(hist) >= 2
    /\ hist[1].op = "incr" /\ hist[2].op = "incr"
    /\ digital_signature_counter = 1024
    /\ Cardinality(AppendedCells) = 2
    /\ \E p \in AppendedCells : IsUpperCell(p, 1) /\ IsLowerCell(p + 2, 0)

(***************************************************************************)
(* The signature counter a scan reconstructs.                              *)
(***************************************************************************)
\* The last of a nonempty set of cells of the pool.
LastCell(cells) == CHOOSE i \in cells : \A j \in cells : j <= i

\* The bits of the halfword cell at index i of the pool, less its kind.
CellBits(i, kind) == (pool[i] - kind) * 256 + pool[i + 1]

\* (h14 << 10) | l10 of the last h14 and the last l10 cell of the pool: 0 for
\* an absent cell, and l10 = 0 when the last l10 cell lies before the last
\* h14 cell.
DscOfPool ==
    LET h14 == IF DscUpperCells = {} THEN 0
               ELSE CellBits(LastCell(DscUpperCells), NR_COUNTER_DS)
        l10 == IF DscLowerCells = {} THEN 0
               ELSE IF DscUpperCells # {}
                       /\ LastCell(DscLowerCells) < LastCell(DscUpperCells)
               THEN 0
               ELSE CellBits(LastCell(DscLowerCells), NR_COUNTER_DS_LSB)
    IN  h14 * 1024 + l10

\* The last k operations before the scan were completed increments.
ScanAfterIncrements(k) ==
    /\ Len(hist) >= k + 1
    /\ hist[1].op = "boot"
    /\ \A i \in 2..(k + 1) : hist[i].op = "incr"

\* C24: after a scan the signature counter is (h14 << 10) | l10 of the last
\* h14 cell and the last l10 cell of the pool, with 0 for an absent cell and
\* l10 = 0 when the last l10 cell lies before the last h14 cell; a scan after
\* completed increments finds the volatile counter of before the reboot.
C24_ScanRebuildsCounter ==
    /\ (Len(hist) >= 1 /\ hist[1].op = "boot") =>
           digital_signature_counter = DscOfPool
    /\ \A k \in 1..(HistLen - 1) :
           ScanAfterIncrements(k) => digital_signature_counter = hist[1].dsc

\* C24 witness: 1022 was incremented twice, past the carry, and the scan
\* finds 1024, with an l10 cell before the h14 cell and one after it.
C24_Witness ==
    /\ ScanAfterIncrements(2)
    /\ hist[3].dsc = 1022
    /\ digital_signature_counter = 1024
    /\ Cardinality(DscLowerCells) >= 2
    /\ \E i \in DscLowerCells : i < LastCell(DscUpperCells)

\* C24 witness of the torn roll-over: power was lost after the h14 cell of
\* 1024, and the scan finds 1024 with the l10 cell of 1023 set aside.
C24_WitnessTorn ==
    /\ Len(hist) >= 2
    /\ hist[1].op = "boot" /\ hist[2].op = "crash" /\ hist[2].data = << 1 >>
    /\ hist[2].dsc = 1023
    /\ digital_signature_counter = 1024
    /\ LastCell(DscLowerCells) < LastCell(DscUpperCells)

(***************************************************************************)
(* The cells compaction writes for the signature counter.                  *)
(***************************************************************************)
\* The last operation was a compaction.
Compacted == Len(hist) >= 1 /\ hist[1].op = "compact"

\* C25 as stated: the cells compaction writes for the counter value d, one
\* l10 cell when d >> 10 is 0 and an h14 and an l10 cell otherwise, decode
\* under the rule of the scan to d: upper 14 and lower 10 bits survive.
C25_AsStated ==
    Compacted => DscOfPool = digital_signature_counter

\* What holds instead: a value below 1024 survives, and of a larger value
\* the upper 14 bits survive while the lower 10 bits are written as 0.
C25_UpperBitsSurvive ==
    Compacted =>
        /\ digital_signature_counter = hist[1].dsc
        /\ DscOfPool = IF digital_signature_counter < 1024
                       THEN digital_signature_counter
                       ELSE (digital_signature_counter \div 1024) * 1024
        /\ Cardinality(DscUpperCells) + Cardinality(DscLowerCells)
             = IF digital_signature_counter < 1024 THEN 1 ELSE 2

(***************************************************************************)
(* SpecCopy: compaction and scan of a pool that holds the PW1-lifetime     *)
(* cell, PIN-error counters and DOs.  The host verifies PW3 first.         *)
(***************************************************************************)
MaxCopyOps == 5

\* Power is lost in a PUT DATA of the value data on a variable data object
\* that holds a value, after the old cell is released and before the new
\* one is written (between openpgp-do.c:1228 and 1239).
CrashPut(max, tag, data) ==
    /\ Running(max)
    /\ tag \in VarTags
    /\ ac_check_status(St, gpg_do_table[get_do_entry(tag)].ac_write)
    /\ do_ptr[do_tag_to_nr(tag)] # NULL
    /\ Len(data) > 0 /\ Len(data) <= 255
    /\ \E r \in { flash_do_release(St, do_ptr[do_tag_to_nr(tag)]) } :
           Commit(r) /\ Record(HistRec("putcrash", tag, data, St, r))
    /\ power' = "off"
    /\ UNCHANGED focus

InitCopy == InitWith(GPG_DO_LOGIN_DATA)

NextCopy ==
    \/ ~admin_authorized /\ VerifyAdmin(MaxCopyOps)
    \/ /\ admin_authorized
       /\ \E d \in Payloads(GPG_DO_PW_STATUS) :
              PutData(MaxCopyOps, GPG_DO_PW_STATUS, d, NoEnv)
    \/ /\ admin_authorized
       /\ \E d \in VarPayloads : PutData(MaxCopyOps, focus, d, NoEnv)
    \/ /\ admin_authorized
       /\ PutData(MaxCopyOps, GPG_DO_RESETTING_CODE, RcPass, NoEnv)
    \/ \E w \in PwErrs : IncrementPwErr(MaxCopyOps, w)
    \/ Compact(MaxCopyOps)
    \/ CrashPut(MaxCopyOps, focus, << 78 >>)
    \/ Boot(MaxCopyOps)
    \/ GetData(MaxCopyOps, focus)

SpecCopy == InitCopy /\ [][NextCopy]_vars

\* Address p is the byte at offset off of a cell of kind nr that was
\* written to the current pool page.
InCell(p, off, nr) ==
    /\ p - off \in hist[1].cells
    /\ p - off >= data_pool(pool_page)
    /\ p < last_p
    /\ Mem(St, p - off) = nr

\* The address after the cell whose header is at c.
CellEnd(c) ==
    IF Mem(St, c) < 128 THEN c + 2 + Mem(St, c + 1) + (Mem(St, c + 1) % 2)
    ELSE IF Mem(St, c) = NR_COUNTER_123 THEN c + 4
    ELSE c + 2

\* C26: after gpg_data_copy every non-null volatile index (each DO pointer,
\* each PIN-error counter pointer, the PW1-lifetime pointer) points into a
\* cell of its kind in the newly written region, none points into the old
\* region, and the pool tail is the address after the last rewritten cell.
C26_IndicesInNewRegion ==
    Compacted =>
        /\ \A nr \in DoNrs :
               do_ptr[nr] # NULL => InCell(do_ptr[nr], 1, nr)
        /\ \A w \in PwErrs :
               pw_err_counter_p[w] # NULL
                   => /\ InCell(pw_err_counter_p[w], 2, NR_COUNTER_123)
                      /\ Mem(St, pw_err_counter_p[w] - 1) = w
        /\ pw1_lifetime_p # NULL
               => InCell(pw1_lifetime_p, 0, NR_BOOL_PW1_LIFETIME)
        /\ hist[1].cells # {}
        /\ \E c \in hist[1].cells :
               /\ \A d \in hist[1].cells : d <= c
               /\ last_p = CellEnd(c)
        /\ \A c \in hist[1].cells : Mem(St, c) # 0
        /\ Mem(St, last_p) = NR_EMPTY

\* C26 witness: a compaction of a pool with the PW1-lifetime cell, a
\* PIN-error counter and a DO.
C26_Witness ==
    /\ Compacted
    /\ pw1_lifetime_p # NULL
    /\ \E w \in PwErrs : pw_err_counter_p[w] # NULL
    /\ \E nr \in DoNrs : do_ptr[nr] # NULL

(***************************************************************************)
(* A scan over released cells.                                             *)
(***************************************************************************)
\* The operation hist[i] was a PUT DATA of a nonempty value on a variable
\* data object, answered with 90 00.
StoredAt(i) ==
    /\ Len(hist) >= i
    /\ hist[i].op = "put" /\ hist[i].tag \in VarTags
    /\ hist[i].data # << >>
    /\ hist[i].resp = << 144, 0 >>

\* A scan of the pool as it is finds the volatile indices as they are.
ScanAgrees ==
    LET b == BootState(pool, pool_page, keystore)
    IN  /\ ~b.ub
        /\ b.do_ptr = do_ptr
        /\ b.pw_err_counter_p = pw_err_counter_p
        /\ b.pw1_lifetime_p = pw1_lifetime_p
        /\ b.last_p = last_p

\* C27 as stated: after a DO cell with a nonempty payload was released (its
\* header zeroed, its payload left) and a new cell was appended after it, a
\* scan skips the released cell whole, takes no byte of its payload for a
\* header, derives no index from it and finds the cell appended after it.
C27_AsStated ==
    (StoredAt(1) /\ StoredAt(2)) => ScanAgrees

\* What holds instead: a scan finds the indices as they are as long as no
\* cell with a payload has been released.
C27_ScanWithoutRelease ==
    (/\ Len(hist) >= 1
     /\ \A c \in hist[1].cells : Mem(St, c) # 0 \/ Mem(St, c + 1) # 0)
        => ScanAgrees

(***************************************************************************)
(* SpecFp: the three CA fingerprints and the object that reports them      *)
(* together.  The host verifies PW3 first.                                 *)
(***************************************************************************)
MaxFpOps == 5

\* The PUT DATA tags of the CA fingerprints 1, 2 and 3.
CafpTags == << GPG_DO_CAFP_1, GPG_DO_CAFP_2, GPG_DO_CAFP_3 >>

\* A 20-byte fingerprint for CA fingerprint k.
Fingerprint(k) == Bytes([i \in 1..SIZE_FP |-> 16 * k + i])

InitFp == InitWith(GPG_DO_CAFP_ALL)

NextFp ==
    \/ ~admin_authorized /\ VerifyAdmin(MaxFpOps)
    \/ /\ admin_authorized
       /\ \E k \in 1..3 : \E d \in { Fingerprint(k), << >> } :
              PutData(MaxFpOps, CafpTags[k], d, NoEnv)
    \/ GetData(MaxFpOps, focus)

SpecFp == InitFp /\ [][NextFp]_vars

\* The 20 bytes of the DO nr, or 20 zero bytes when it is absent.
FpField(nr) ==
    IF do_ptr[nr] = NULL THEN Rep(0, SIZE_FP)
    ELSE DoCell(St, nr).data

\* The last operation was a GET DATA on the all-CA-fingerprints object.
GotCafpAll ==
    Len(hist) >= 1 /\ hist[1].op = "get" /\ hist[1].tag = GPG_DO_CAFP_ALL

\* C28 as stated: GET DATA on the all-CA-fingerprints object answers the 60
\* bytes of CA fingerprint 1, 2 and 3 in this order, 20 zero bytes for an
\* absent one.
C28_AsStated ==
    GotCafpAll =>
        Response = FpField(NR_DO_CAFP_1) \o FpField(NR_DO_CAFP_2)
                     \o FpField(NR_DO_CAFP_3) \o << 144, 0 >>

\* What holds instead: the third field repeats CA fingerprint 2.
C28_SecondTwice ==
    GotCafpAll =>
        Response = FpField(NR_DO_CAFP_1) \o FpField(NR_DO_CAFP_2)
                     \o FpField(NR_DO_CAFP_2) \o << 144, 0 >>

(***************************************************************************)
(* Import into a role that holds a key.                                    *)
(***************************************************************************)
\* The last operation was a successful import into a role that held a key.
Reimported == Imported /\ hist[1].prv[ImportedKind]

\* The key slots that are allocated.
AllocatedSlots == { k \in KeySlots : keystore[k].alloc }

\* C29: a successful import into a role that holds a key keeps the DEK of
\* the old record, as its admin copy opens under the admin keystring: the
\* new admin copy and the new user copy, under the keystring of the initial
\* PW1, hold it; the reset-code copy is zero; the PW1 and RC keystring DOs
\* are absent; the old key slot and the old cell are released;
\* num_prv_keys is as before; the role has one live private-key cell and
\* one allocated key slot.
C29_Reimport ==
    Reimported =>
        LET nr  == get_do_ptr_nr_for_kk(ImportedKind)
            pd  == PdOf(ImportedKind)
            old == hist[1].pre.pd
            dek == decrypt(KsAdmin, PdDek(old, BY_ADMIN))
        IN  /\ decrypt(keystring_md_pw3, PdDek(pd, BY_ADMIN)) = dek
            /\ decrypt(sha1(OPENPGP_CARD_INITIAL_PW1), PdDek(pd, BY_USER)) = dek
            /\ PdDek(pd, BY_RESETCODE) = Rep(0, DATA_ENCRYPTION_KEY_SIZE)
            /\ do_ptr[NR_DO_KEYSTRING_PW1] = NULL
            /\ do_ptr[NR_DO_KEYSTRING_RC] = NULL
            /\ num_prv_keys = hist[1].num_prv_keys
            /\ LiveCells(nr) = { do_ptr[nr] - 1 }
            /\ SlotOf(PdKeyAddr(old)) \notin AllocatedSlots
            /\ SlotOf(PdKeyAddr(pd)) \in AllocatedSlots
            /\ Cardinality(AllocatedSlots) = NumPrvKeys(do_ptr)
            /\ KdData(decrypt(dek, KeyMem(St, PdKeyAddr(pd), 0, KEY_CONTENT_LEN)
                                     \o PdCrm(pd)))
                 = ImportedKey

\* C29 witness: the role held a key whose reset-code copy was set, with the
\* RC keystring DO present, and a key was imported over it.
C29_Witness ==
    /\ Reimported
    /\ hist[1].rc.p # NULL
    /\ PdDek(hist[1].pre.pd, BY_RESETCODE) # Rep(0, DATA_ENCRYPTION_KEY_SIZE)
    /\ do_ptr[NR_DO_KEYSTRING_RC] = NULL

\* C29 witness with the PW1 keystring DO: the user PIN had been changed
\* before a key was imported over the key of the role.
C29_WitnessPw1 ==
    /\ Reimported
    /\ hist[1].pw1_set
    /\ do_ptr[NR_DO_KEYSTRING_PW1] = NULL

(***************************************************************************)
(* Power loss inside a PUT DATA.                                           *)
(***************************************************************************)
\* A value x was stored, power was lost inside the PUT DATA of a value y on
\* the same object, the pool was scanned and the object was read.
PutCrashScanGet ==
    /\ Len(hist) >= 4
    /\ hist[1].op = "get"
    /\ hist[2].op = "boot"
    /\ hist[3].op = "putcrash" /\ hist[3].tag = hist[1].tag
    /\ StoredAt(4) /\ hist[4].tag = hist[1].tag

\* C30 as stated: when power is lost between the NV writes of a PUT DATA on
\* a variable data object that holds a value, and the pool is scanned, GET
\* DATA answers the whole old value or the whole new value.
C30_AsStated ==
    PutCrashScanGet =>
        \/ Response = hist[4].data \o << 144, 0 >>
        \/ Response = hist[3].data \o << 144, 0 >>

\* What holds instead: the old cell is released first, and after the scan
\* the object is absent: GET DATA answers 90 00 with no body.
C30_AbsentAfterCrash ==
    PutCrashScanGet => Response = << 144, 0 >>

(***************************************************************************)
(* The DO pointer table after failed operations.                           *)
(***************************************************************************)
\* The entry of the pointer table for nr is set and the header of the cell
\* it points into no longer holds nr.
Dangling(nr) == do_ptr[nr] # NULL /\ Mem(St, do_ptr[nr] - 1) # nr

\* C31 as stated: after every completed operation, failed ones included,
\* every non-null entry of the DO pointer table refers to a live cell of the
\* matching DO number.
C31_AsStated == \A nr \in DoNrs : ~Dangling(nr)

\* What holds instead: an entry dangles only after a PUT DATA of more than
\* 255 bytes on its object, which releases the held cell and fails with the
\* pointer left as it was.
C31_DanglingAfterLongPut ==
    \A nr \in DoNrs :
        Dangling(nr) =>
            \E i \in 1..Len(hist) :
                /\ hist[i].op = "put" /\ hist[i].admin
                /\ hist[i].tag \in VarTags
                /\ do_tag_to_nr(hist[i].tag) = nr
                /\ Len(hist[i].data) > 255

(***************************************************************************)
(* SpecFail: key import, deletion, rewrap and the resetting code when the  *)
(* collaborators fail, on a personalised card whose data pool has room for *)
(* two more private-key records.  focus is the byte of the signing role.   *)
(***************************************************************************)
MaxFailOps == 5

\* The pool of a card on which the host has stored a name, login data and a
\* URL of 255 bytes each and a language preference of 88 bytes.
PersonalisedPool ==
    gpg_do_put_data(
        gpg_do_put_data(
            gpg_do_put_data(
                gpg_do_put_data(
                    [BootState(<< >>, 0, EmptyKeystore) EXCEPT !.admin = TRUE],
                    GPG_DO_NAME, Rep(65, 255), NoEnv),
                GPG_DO_LOGIN_DATA, Rep(66, 255), NoEnv),
            GPG_DO_URL, Rep(67, 255), NoEnv),
        GPG_DO_LANGUAGE, Rep(68, 88), NoEnv).pool

\* The key-slot write fails; the allocator or modulus_calc fails.
KeyWriteFails == [KeyEnv EXCEPT !.key_write_ok = FALSE]
ModulusFails == [KeyEnv EXCEPT !.modulus_ok = FALSE]

\* The card is powered on over the personalised pool.
InitFail ==
    /\ StartsAs(BootState(PersonalisedPool, 0, EmptyKeystore))
    /\ power = "on"
    /\ nops = 0
    /\ hist = << >>
    /\ focus = 182

NextFail ==
    \/ ~admin_authorized /\ VerifyAdmin(MaxFailOps)
    \/ /\ admin_authorized
       /\ \E b \in { 182, 184 } :
              PutData(MaxFailOps, GPG_DO_KEY_IMPORT,
                      ImportPayload(b, KeyFor(b)), KeyEnvAt(nops))
    \/ /\ admin_authorized
       /\ \E env \in { KeyWriteFails, ModulusFails, NoMallocEnv } :
              PutData(MaxFailOps, GPG_DO_KEY_IMPORT,
                      ImportPayload(focus, KeyFor(focus)), env)
    \/ /\ admin_authorized
       /\ PutData(MaxFailOps, GPG_DO_KEY_IMPORT, DeletePayload(focus), KeyEnv)
    \/ /\ admin_authorized
       /\ PutData(MaxFailOps, GPG_DO_RESETTING_CODE, RcPass, KeyEnv)
    \/ /\ admin_authorized
       /\ \E old_ks \in { KsAdmin, KsReset } :
              ChksPrvkey(MaxFailOps, KeyKindOfByte(focus), BY_ADMIN, old_ks,
                         BY_RESETCODE, KsReset)
    \/ /\ admin_authorized
       /\ ChksPrvkey(MaxFailOps, KeyKindOfByte(focus), BY_ADMIN, KsReset,
                     BY_ADMIN, KsUser)

SpecFail == InitFail /\ [][NextFail]_vars

\* The last operation was a key import, answered with an error, into the
\* role that the operation before it had imported a key into.
FailedReimport ==
    /\ Len(hist) >= 2
    /\ hist[1].op = "put" /\ hist[2].op = "put"
    /\ hist[1].tag = GPG_DO_KEY_IMPORT /\ hist[2].tag = GPG_DO_KEY_IMPORT
    /\ Len(hist[1].data) > 22 /\ Len(hist[2].data) > 22
    /\ hist[1].data[5] = hist[2].data[5]
    /\ hist[2].resp = << 144, 0 >>
    /\ hist[1].resp # << 144, 0 >>

\* The role of the last import still holds the record it held before, the
\* admin keystring opens it to the key of the role, and the RC keystring DO
\* is as before.
OldKeyIntact ==
    LET kk == KeyKindOfByte(hist[1].data[5])
        l  == gpg_do_load_prvkey(St, kk, BY_ADMIN, KsAdmin)
    IN  /\ do_ptr[get_do_ptr_nr_for_kk(kk)] # NULL
        /\ ~Dangling(get_do_ptr_nr_for_kk(kk))
        /\ PdOf(kk) = hist[1].pre.pd
        /\ l.ret = 1
        /\ KdData(l.kd) = KeyFor(hist[1].data[5])
        /\ DoCell(St, NR_DO_KEYSTRING_RC) = hist[1].rc

\* C32 as stated: when gpg_do_write_prvkey fails for a role that held a key,
\* the old record, its key slot and the keystring DOs are intact, and
\* gpg_do_load_prvkey with the admin keystring returns 1 and recovers the
\* old key.
C32_AsStated == FailedReimport => OldKeyIntact

\* What holds instead: the old key is intact, or its cell and its key slot
\* were released before the failure and the RC keystring DO is gone.
C32_IntactOrReleased ==
    FailedReimport =>
        \/ OldKeyIntact
        \/ LET nr == get_do_ptr_nr_for_kk(KeyKindOfByte(hist[1].data[5]))
           IN  /\ LiveCells(nr) = {}
               /\ do_ptr[nr] = NULL \/ Dangling(nr)
               /\ ~keystore[SlotOf(PdKeyAddr(hist[1].pre.pd))].alloc
               /\ do_ptr[NR_DO_KEYSTRING_RC] = NULL
               /\ do_ptr[NR_DO_KEYSTRING_PW1] = NULL

(***************************************************************************)
(* A rewrap with a keystring that does not open the key.                   *)
(***************************************************************************)
\* The last operation was gpg_do_chks_prvkey on the role that the operation
\* before it had imported a key into, with an old keystring that does not
\* open the key through who_old.
WrongRewrap ==
    /\ Len(hist) >= 2
    /\ hist[1].op = "chks"
    /\ ~hist[1].pre.ok
    /\ hist[2].op = "put" /\ hist[2].tag = GPG_DO_KEY_IMPORT
    /\ Len(hist[2].data) > 22
    /\ KeyKindOfByte(hist[2].data[5]) = hist[1].tag
    /\ hist[2].resp = << 144, 0 >>

\* C33 as stated: gpg_do_chks_prvkey with an old keystring that does not
\* unwrap the selected DEK copy does not report success and leaves the
\* record unchanged, so that the admin keystring still opens the key.
C33_AsStated ==
    WrongRewrap =>
        /\ hist[1].ret # 1
        /\ PdOf(hist[1].tag) = hist[1].pre.pd
        /\ LoadRet(hist[1].tag, BY_ADMIN, KsAdmin) = 1

\* What holds instead: the rewrap answers 1 unless the append fails, and the
\* new record holds at who_new the selected copy, decrypted with the wrong
\* old keystring and encrypted with the new one; the new keystring does not
\* open the key through who_new, and when who_new is who_old the copy that
\* did open the key is lost.
C33_WrongRewrapWrites ==
    (WrongRewrap /\ hist[1].ret = 1) =>
        /\ PdOf(hist[1].tag)
             = ChksWithDek(hist[1].pre.pd, ChksDekP(RewrapNew),
                   encrypt(RewrapNewKs,
                       decrypt(RewrapOldKs,
                           ChksDek(hist[1].pre.pd, ChksDekP(RewrapOld)))))
        /\ PdOf(hist[1].tag) # hist[1].pre.pd
        /\ LoadRet(hist[1].tag, RewrapNew, RewrapNewKs) # 1
        /\ RewrapNew = RewrapOld =>
               \A ks \in { KsAdmin, KsReset, KsUser } :
                   LoadRet(hist[1].tag, RewrapOld, ks) # 1

(***************************************************************************)
(* Import while the RC keystring DO holds its length byte only.            *)
(***************************************************************************)
\* The last operation was a successful import into an empty role while the
\* RC keystring DO held one byte.
ShortRcImport ==
    /\ Imported
    /\ ~hist[1].prv[ImportedKind]
    /\ Len(hist[1].rc.data) = 1

\* The KEYSTRING_MD_SIZE bytes that followed the length byte of the RC
\* keystring DO in the pool when the record was built: the pad byte of its
\* cell and what was programmed after it; the record itself was appended
\* later, at the address of its header.
BytesAfterRcLength ==
    Bytes([i \in 1..KEYSTRING_MD_SIZE |->
              IF hist[1].rc.p + 1 + i
                    < do_ptr[get_do_ptr_nr_for_kk(ImportedKind)] - 1
              THEN Mem(St, hist[1].rc.p + 1 + i)
              ELSE 255])

\* C34 as stated: when the RC keystring DO holds only its length byte, no
\* byte outside its payload is read as key material, and the reset-code DEK
\* copy written by the import can be unwrapped with the real keystring of
\* the resetting code.
C34_AsStated ==
    ShortRcImport =>
        /\ LoadRet(ImportedKind, BY_RESETCODE, KsReset) = 1
        /\ LoadRet(ImportedKind, BY_RESETCODE, BytesAfterRcLength) # 1

\* What holds instead: the reset-code copy is wrapped under the 20 bytes
\* that follow the length byte in the pool, and the keystring of the
\* resetting code does not open it.
C34_WrapsUnderPoolBytes ==
    ShortRcImport =>
        /\ LoadRet(ImportedKind, BY_RESETCODE, BytesAfterRcLength) = 1
        /\ LoadRet(ImportedKind, BY_RESETCODE, KsReset) # 1
        /\ BytesAfterRcLength # KsReset

(***************************************************************************)
(* Key-slot accounting.                                                    *)
(***************************************************************************)
PrvkeyNrs == { NR_DO_PRVKEY_SIG, NR_DO_PRVKEY_DEC, NR_DO_PRVKEY_AUT }

\* The key slots that the live private-key cells of the pool name.
LiveSlots ==
    { SlotOf(PdKeyAddr(ReadPd(St, p + 1))) :
          p \in UNION { LiveCells(nr) : nr \in PrvkeyNrs } }

\* The last operation was a key import, a key deletion or a rewrap.
KeyOpDone ==
    /\ Len(hist) >= 1
    /\ \/ hist[1].op = "put" /\ hist[1].tag = GPG_DO_KEY_IMPORT
       \/ hist[1].op = "chks"

\* C35 as stated: after every completed key import, key deletion or
\* gpg_do_chks_prvkey, failed or not, the allocated key slots are the slots
\* named by the live private-key DOs.
C35_AsStated == KeyOpDone => AllocatedSlots = LiveSlots

\* What holds where no collaborator fails and the pool has room: the
\* allocated key slots are the slots named by the live private-key cells.
C35_AccountingWithoutFailure == AllocatedSlots = LiveSlots

\* An import failed after the key slot was allocated: the slot stays
\* allocated and no live record names it.
C35_Leak ==
    /\ KeyOpDone
    /\ hist[1].resp # << 144, 0 >>
    /\ AllocatedSlots \ LiveSlots # {}

\* A live record names a key slot that is released.
C35_ReleasedSlotInUse == KeyOpDone /\ LiveSlots \ AllocatedSlots # {}

(***************************************************************************)
(* Turning the PW1 lifetime off, and the next power on.                    *)
(***************************************************************************)
\* The last operation was a PUT DATA of the PW status bytes with a first
\* byte 0, answered with 90 00.
LifetimeTurnedOff ==
    /\ Len(hist) >= 1
    /\ hist[1].op = "put"
    /\ hist[1].tag = GPG_DO_PW_STATUS
    /\ Len(hist[1].data) >= 1 /\ hist[1].data[1] = 0
    /\ hist[1].resp = << 144, 0 >>

\* What gpg_get_pw1_lifetime answers after the next power on.
LifetimeAfterBoot ==
    gpg_get_pw1_lifetime(BootState(pool, pool_page, keystore))

\* C36 as stated: after a successful PUT DATA of the PW status bytes with
\* data[0] = 0, gpg_get_pw1_lifetime is 0 after a reboot, whatever PW status
\* writes came before.
C36_AsStated == LifetimeTurnedOff => LifetimeAfterBoot = 0

\* What holds instead: right after the write the option is off, and after
\* a reboot it is off exactly when no NR_BOOL_PW1_LIFETIME cell is left
\* live in the pool.
C36_OffUnlessCellLeft ==
    LifetimeTurnedOff =>
        /\ gpg_get_pw1_lifetime(St) = 0
        /\ LifetimeAfterBoot = 0 <=> LiveLifetimeCells = {}

(***************************************************************************)
(* A rejected PUT DATA.                                                    *)
(***************************************************************************)
\* gpg_do_put_data rejects the tag in the present state: it is not in the
\* catalog, or the write access condition of its entry is not satisfied.
Rejected(tag) ==
    \/ get_do_entry(tag) = NULL
    \/ ~ac_check_status(St, gpg_do_table[get_do_entry(tag)].ac_write)

\* C37: a PUT DATA that is rejected because the tag is not in the catalog
\* or because the write access condition of its entry is not satisfied
\* leaves the NV pool, the DO pointer table, the PIN-error counters, the
\* PW1-lifetime flag, the signature counter, num_prv_keys and the key slots
\* as they were.
C37_RejectedPutChangesNothing ==
    [][ (/\ nops' = nops + 1
         /\ hist'[1].op = "put"
         /\ Rejected(hist'[1].tag))
        => UNCHANGED << pool, pool_page, last_p, do_ptr, pw_err_counter_p,
                        pw1_lifetime_p, digital_signature_counter,
                        num_prv_keys, keystore >> ]_vars

\* C37 witness: a PUT DATA with a non-empty payload on a tag with an admin
\* write condition was answered with 69 82 on a card whose pool holds data
\* from an earlier, authorised PUT DATA.
C37_Witness ==
    /\ Len(hist) >= 3
    /\ hist[1].op = "put" /\ ~hist[1].admin
    /\ hist[1].data # << >>
    /\ hist[1].tag \in AdminWriteTags
    /\ hist[1].resp = << 105, 130 >>
    /\ hist[2].op = "reset"
    /\ hist[3].op = "put" /\ hist[3].resp = << 144, 0 >>
    /\ pool # << >>

\* A PUT DATA on a tag that is not in the catalog was answered with 6A 88.
C37_WitnessUnknownTag ==
    /\ Len(hist) >= 1
    /\ hist[1].op = "put"
    /\ hist[1].tag = UnknownTag
    /\ hist[1].resp = << 106, 136 >>

====
